---- MODULE Spec2Model ----
(***************************************************************************)
(* News sentiment classification of the Indian-Stock-Analyser              *)
(* (src/stock_picker.py).  A headline is a sequence of characters, each a  *)
(* one-character string; the lexicon entries, the negation markers and the *)
(* matched terms are sequences of characters too.                          *)
(***************************************************************************)
EXTENDS Integers, Sequences, FiniteSets, TLC

\* ------------------------------------------------------------------------
\* Bounds of the model
\* ------------------------------------------------------------------------

\* A headline is built from at most MaxTokens tokens of Tokens.
MaxTokens == 3

\* ------------------------------------------------------------------------
\* Characters and Python string primitives
\* ------------------------------------------------------------------------

UpperCase == <<"A","B","C","D","E","F","G","H","I","J","K","L","M","N","O","P","Q","R","S","T","U","V","W","X","Y","Z","É">>

LowerCase == <<"a","b","c","d","e","f","g","h","i","j","k","l","m","n","o","p","q","r","s","t","u","v","w","x","y","z","é">>

Digits == {"0","1","2","3","4","5","6","7","8","9"}

Range(s) == { s[i] : i \in DOMAIN s }

\* str.lower() on the characters that have another lower case: A-Z map to
\* a-z and É maps to é.
LowerTable == [ c \in { UpperCase[i] : i \in DOMAIN UpperCase } |->
                  LowerCase[CHOOSE i \in DOMAIN UpperCase : UpperCase[i] = c] ]

\* str.lower() on one character; every other character of the model's
\* alphabet is its own lower case.
UpperChars == Range(UpperCase)

LowerChar(c) == IF c \in UpperChars THEN LowerTable[c] ELSE c

\* text.lower()
lower(text) == [ i \in 1..Len(text) |-> LowerChar(text[i]) ]

\* The regex class \w: letters, digits and the underscore.
WordChars == Range(LowerCase) \cup Range(UpperCase) \cup Digits \cup {"_"}

IsWordChar(c) == c \in WordChars

\* p occurs in s at the 0-based offset i (the first character is compared
\* first; every pattern of the program is non-empty).
MatchAt(s, p, i) ==
    /\ i >= 0
    /\ i + Len(p) <= Len(s)
    /\ s[i + 1] = p[1]
    /\ \A k \in 1..Len(p) : s[i + k] = p[k]

\* The 0-based offsets at which p occurs in s.
Occurrences(s, p) ==
    { i \in 0..(Len(s) - Len(p)) : s[i + 1] = p[1] /\ MatchAt(s, p, i) }

SetMin(S) == CHOOSE x \in S : \A y \in S : x <= y

SetMax(S) == CHOOSE x \in S : \A y \in S : x >= y

\* str.find: the 0-based offset of the first occurrence, -1 when there is none.
find(s, p) == IF Occurrences(s, p) = {} THEN -1 ELSE SetMin(Occurrences(s, p))

\* The operator `in` on strings.
Contains(s, p) ==
    \E i \in 0..(Len(s) - Len(p)) : s[i + 1] = p[1] /\ MatchAt(s, p, i)

\* The slice s[a:b] for 0 <= a <= b <= len(s).
Slice(s, a, b) == SubSeq(s, a + 1, b)

\* The operator `in` on lists.
InList(x, lst) == \E i \in DOMAIN lst : lst[i] = x

Max(a, b) == IF a >= b THEN a ELSE b

\* ------------------------------------------------------------------------
\* The lexicon
\* ------------------------------------------------------------------------

\* The bullish phrases, each as its sequence of characters.
BULLISH_PHRASES ==
    << <<"r","e","v","e","n","u","e"," ","g","r","o","w","t","h">>,   \* revenue growth
       <<"p","r","o","f","i","t"," ","g","r","o","w","t","h">>,   \* profit growth
       <<"s","t","r","o","n","g"," ","g","r","o","w","t","h">>,   \* strong growth
       <<"r","e","c","o","r","d"," ","p","r","o","f","i","t">>,   \* record profit
       <<"r","e","c","o","r","d"," ","r","e","v","e","n","u","e">>,   \* record revenue
       <<"r","e","c","o","r","d"," ","h","i","g","h">>,   \* record high
       <<"b","e","a","t","s"," ","e","s","t","i","m","a","t","e","s">>,   \* beats estimates
       <<"b","e","a","t","s"," ","e","x","p","e","c","t","a","t","i","o","n","s">>,   \* beats expectations
       <<"a","b","o","v","e"," ","e","x","p","e","c","t","a","t","i","o","n","s">>,   \* above expectations
       <<"b","e","t","t","e","r"," ","t","h","a","n"," ","e","x","p","e","c","t","e","d">>,   \* better than expected
       <<"s","t","r","o","n","g"," ","r","e","s","u","l","t","s">>,   \* strong results
       <<"s","t","r","o","n","g"," ","e","a","r","n","i","n","g","s">>,   \* strong earnings
       <<"s","t","r","o","n","g"," ","d","e","m","a","n","d">>,   \* strong demand
       <<"m","a","r","k","e","t"," ","s","h","a","r","e"," ","g","a","i","n">>,   \* market share gain
       <<"o","r","d","e","r"," ","w","i","n">>,   \* order win
       <<"n","e","w"," ","c","o","n","t","r","a","c","t">>,   \* new contract
       <<"s","t","r","a","t","e","g","i","c"," ","p","a","r","t","n","e","r","s","h","i","p">>,   \* strategic partnership
       <<"s","t","r","a","t","e","g","i","c"," ","a","c","q","u","i","s","i","t","i","o","n">>,   \* strategic acquisition
       <<"s","h","a","r","e"," ","b","u","y","b","a","c","k">>,   \* share buyback
       <<"d","i","v","i","d","e","n","d"," ","h","i","k","e">>,   \* dividend hike
       <<"d","i","v","i","d","e","n","d"," ","i","n","c","r","e","a","s","e">>,   \* dividend increase
       <<"p","r","i","c","e"," ","t","a","r","g","e","t"," ","r","a","i","s","e","d">>,   \* price target raised
       <<"r","a","t","i","n","g"," ","u","p","g","r","a","d","e">>,   \* rating upgrade
       <<"u","p","g","r","a","d","e","d"," ","t","o"," ","b","u","y">>,   \* upgraded to buy
       <<"p","o","s","i","t","i","v","e"," ","o","u","t","l","o","o","k">>,   \* positive outlook
       <<"g","u","i","d","a","n","c","e"," ","r","a","i","s","e","d">>,   \* guidance raised
       <<"r","a","i","s","e","s"," ","g","u","i","d","a","n","c","e">>,   \* raises guidance
       <<"a","l","l","-","t","i","m","e"," ","h","i","g","h">>,   \* all-time high
       <<"d","e","b","t"," ","r","e","d","u","c","t","i","o","n">>,   \* debt reduction
       <<"m","a","r","g","i","n"," ","e","x","p","a","n","s","i","o","n">>,   \* margin expansion
       <<"m","a","r","g","i","n"," ","i","m","p","r","o","v","e","m","e","n","t">>,   \* margin improvement
       <<"s","t","a","k","e"," ","i","n","c","r","e","a","s","e">>,   \* stake increase
       <<"f","u","n","d"," ","i","n","f","l","o","w">>,   \* fund inflow
       <<"n","e","t"," ","p","r","o","f","i","t"," ","u","p">>,   \* net profit up
       <<"n","e","t"," ","p","r","o","f","i","t"," ","r","o","s","e">>,   \* net profit rose
       <<"n","e","t"," ","p","r","o","f","i","t"," ","j","u","m","p","e","d">>,   \* net profit jumped
       <<"t","o","p"," ","l","i","n","e"," ","g","r","o","w","t","h">>,   \* top line growth
       <<"b","o","t","t","o","m"," ","l","i","n","e"," ","g","r","o","w","t","h">> >>   \* bottom line growth

\* The bearish phrases.
BEARISH_PHRASES ==
    << <<"n","e","t"," ","l","o","s","s">>,   \* net loss
       <<"r","e","v","e","n","u","e"," ","d","e","c","l","i","n","e">>,   \* revenue decline
       <<"r","e","v","e","n","u","e"," ","m","i","s","s">>,   \* revenue miss
       <<"p","r","o","f","i","t"," ","d","e","c","l","i","n","e">>,   \* profit decline
       <<"m","i","s","s","e","d"," ","e","s","t","i","m","a","t","e","s">>,   \* missed estimates
       <<"m","i","s","s","e","d"," ","e","x","p","e","c","t","a","t","i","o","n","s">>,   \* missed expectations
       <<"b","e","l","o","w"," ","e","x","p","e","c","t","a","t","i","o","n","s">>,   \* below expectations
       <<"w","o","r","s","e"," ","t","h","a","n"," ","e","x","p","e","c","t","e","d">>,   \* worse than expected
       <<"w","e","a","k"," ","r","e","s","u","l","t","s">>,   \* weak results
       <<"w","e","a","k"," ","e","a","r","n","i","n","g","s">>,   \* weak earnings
       <<"w","e","a","k"," ","d","e","m","a","n","d">>,   \* weak demand
       <<"m","a","r","k","e","t"," ","s","h","a","r","e"," ","l","o","s","s">>,   \* market share loss
       <<"o","r","d","e","r"," ","c","a","n","c","e","l","l","a","t","i","o","n">>,   \* order cancellation
       <<"r","a","t","i","n","g"," ","d","o","w","n","g","r","a","d","e">>,   \* rating downgrade
       <<"d","o","w","n","g","r","a","d","e","d"," ","t","o"," ","s","e","l","l">>,   \* downgraded to sell
       <<"n","e","g","a","t","i","v","e"," ","o","u","t","l","o","o","k">>,   \* negative outlook
       <<"g","u","i","d","a","n","c","e"," ","c","u","t">>,   \* guidance cut
       <<"l","o","w","e","r","s"," ","g","u","i","d","a","n","c","e">>,   \* lowers guidance
       <<"g","u","i","d","a","n","c","e"," ","l","o","w","e","r","e","d">>,   \* guidance lowered
       <<"d","e","b","t"," ","c","o","n","c","e","r","n">>,   \* debt concern
       <<"d","e","b","t"," ","b","u","r","d","e","n">>,   \* debt burden
       <<"h","i","g","h"," ","d","e","b","t">>,   \* high debt
       <<"r","i","s","i","n","g"," ","d","e","b","t">>,   \* rising debt
       <<"m","a","r","g","i","n"," ","p","r","e","s","s","u","r","e">>,   \* margin pressure
       <<"m","a","r","g","i","n"," ","c","o","n","t","r","a","c","t","i","o","n">>,   \* margin contraction
       <<"s","t","a","k","e"," ","s","a","l","e">>,   \* stake sale
       <<"f","u","n","d"," ","o","u","t","f","l","o","w">>,   \* fund outflow
       <<"n","e","t"," ","p","r","o","f","i","t"," ","f","e","l","l">>,   \* net profit fell
       <<"n","e","t"," ","p","r","o","f","i","t"," ","d","e","c","l","i","n","e","d">>,   \* net profit declined
       <<"p","r","i","c","e"," ","t","a","r","g","e","t"," ","c","u","t">>,   \* price target cut
       <<"p","r","i","c","e"," ","t","a","r","g","e","t"," ","l","o","w","e","r","e","d">>,   \* price target lowered
       <<"u","n","d","e","r"," ","i","n","v","e","s","t","i","g","a","t","i","o","n">>,   \* under investigation
       <<"r","e","g","u","l","a","t","o","r","y"," ","a","c","t","i","o","n">>,   \* regulatory action
       <<"p","e","n","a","l","t","y"," ","i","m","p","o","s","e","d">>,   \* penalty imposed
       <<"c","o","n","s","e","n","t"," ","o","r","d","e","r">>,   \* consent order
       <<"p","r","o","f","i","t"," ","w","a","r","n","i","n","g">>,   \* profit warning
       <<"e","a","r","n","i","n","g","s"," ","m","i","s","s">>,   \* earnings miss
       <<"l","a","y","o","f","f"," ","a","n","n","o","u","n","c","e","d">> >>   \* layoff announced

\* The bullish single words.
BULLISH_WORDS ==
    << <<"g","r","o","w","t","h">>,   \* growth
       <<"p","r","o","f","i","t">>,   \* profit
       <<"e","x","p","a","n","s","i","o","n">>,   \* expansion
       <<"a","c","q","u","i","s","i","t","i","o","n">>,   \* acquisition
       <<"p","a","r","t","n","e","r","s","h","i","p">>,   \* partnership
       <<"d","i","v","i","d","e","n","d">>,   \* dividend
       <<"u","p","g","r","a","d","e">>,   \* upgrade
       <<"m","i","l","e","s","t","o","n","e">>,   \* milestone
       <<"i","n","n","o","v","a","t","i","o","n">>,   \* innovation
       <<"l","a","u","n","c","h">>,   \* launch
       <<"b","e","a","t","s">>,   \* beats
       <<"s","u","r","p","a","s","s">>,   \* surpass
       <<"b","r","e","a","k","t","h","r","o","u","g","h">>,   \* breakthrough
       <<"b","u","l","l","i","s","h">>,   \* bullish
       <<"r","a","l","l","y">>,   \* rally
       <<"b","u","y","b","a","c","k">>,   \* buyback
       <<"o","u","t","p","e","r","f","o","r","m">>,   \* outperform
       <<"r","e","c","o","v","e","r","y">>,   \* recovery
       <<"b","o","o","s","t">>,   \* boost
       <<"g","a","i","n","s">>,   \* gains
       <<"s","o","a","r","s">>,   \* soars
       <<"s","u","r","g","e","s">>,   \* surges
       <<"j","u","m","p","s">>,   \* jumps
       <<"c","l","i","m","b","s">>,   \* climbs
       <<"r","i","s","e","s">> >>   \* rises

\* The bearish single words.
BEARISH_WORDS ==
    << <<"l","o","s","s">>,   \* loss
       <<"l","o","s","s","e","s">>,   \* losses
       <<"d","e","b","t">>,   \* debt
       <<"d","o","w","n","g","r","a","d","e">>,   \* downgrade
       <<"r","e","s","t","r","u","c","t","u","r","i","n","g">>,   \* restructuring
       <<"l","a","y","o","f","f","s">>,   \* layoffs
       <<"f","r","a","u","d">>,   \* fraud
       <<"p","e","n","a","l","t","y">>,   \* penalty
       <<"d","e","c","l","i","n","e">>,   \* decline
       <<"i","n","v","e","s","t","i","g","a","t","i","o","n">>,   \* investigation
       <<"l","a","w","s","u","i","t">>,   \* lawsuit
       <<"d","e","f","a","u","l","t">>,   \* default
       <<"r","e","c","a","l","l">>,   \* recall
       <<"w","a","r","n","i","n","g">>,   \* warning
       <<"b","e","a","r","i","s","h">>,   \* bearish
       <<"c","r","a","s","h">>,   \* crash
       <<"i","m","p","a","i","r","m","e","n","t">>,   \* impairment
       <<"u","n","d","e","r","p","e","r","f","o","r","m">>,   \* underperform
       <<"p","l","u","n","g","e","s">>,   \* plunges
       <<"t","u","m","b","l","e","s">>,   \* tumbles
       <<"s","l","u","m","p","s">>,   \* slumps
       <<"p","l","u","m","m","e","t","s">>,   \* plummets
       <<"t","a","n","k","s">>,   \* tanks
       <<"s","i","n","k","s">>,   \* sinks
       <<"s","l","i","d","e","s">> >>   \* slides

\* Negation phrases that flip the sentiment of nearby phrases.
_NEGATION_PREFIXES ==
    << <<"n","o"," ">>,   \* no 
       <<"n","o","t"," ">>,   \* not 
       <<"w","i","t","h","o","u","t"," ">>,   \* without 
       <<"l","a","c","k"," ","o","f"," ">>,   \* lack of 
       <<"f","a","i","l","e","d"," ","t","o"," ">>,   \* failed to 
       <<"u","n","a","b","l","e"," ","t","o"," ">> >>   \* unable to 

\* ------------------------------------------------------------------------
\* classify_sentiment
\* ------------------------------------------------------------------------

\* The look-back of the negation check, in characters.
NegationWindow == 15

\* The weight of a phrase match.
PhraseWeight == 2

\* The weight of a single-word match.
WordWeight == 1

\* The annotation of a negated bullish phrase, f"not {phrase}".
NotPhrase(phrase) == <<"n","o","t"," ">> \o phrase

\* The annotation of a negated bearish phrase, f"no {phrase}".
NoPhrase(phrase) == <<"n","o"," ">> \o phrase

\* The locals of classify_sentiment before the scan.
InitialLocals ==
    [ bull_score |-> 0, bear_score |-> 0, bull_hits |-> <<>>, bear_hits |-> <<>> ]

\* The guard `text is None`: the empty string is scanned.
Falsy_NoneOnly(none, text) == none

\* `not text`: None and the empty string are falsy.
Falsy(none, text) == none \/ Len(text) = 0

\* Negated with the window taken before the last occurrence of the phrase
\* (rfind) instead of the first.
Negated_LastOccurrence(text_lower, phrase) ==
    LET idx == SetMax(Occurrences(text_lower, phrase))
        before == Slice(text_lower, Max(0, idx - NegationWindow), idx)
    IN  \E n \in DOMAIN _NEGATION_PREFIXES : Contains(before, _NEGATION_PREFIXES[n])

\* The negation check of a phrase that occurs in text_lower: a negation
\* marker occurs in the (at most) 15 characters before its first occurrence.
Negated(text_lower, phrase) ==
    LET idx == find(text_lower, phrase)
        before == Slice(text_lower, Max(0, idx - NegationWindow), idx)
    IN  \E n \in DOMAIN _NEGATION_PREFIXES : Contains(before, _NEGATION_PREFIXES[n])

\* One iteration of the loop over BULLISH_PHRASES.
BullishPhraseStep(st, text_lower, phrase) ==
    IF ~Contains(text_lower, phrase) THEN st
    ELSE IF Negated(text_lower, phrase)
         THEN [st EXCEPT !.bear_score = @ + PhraseWeight,
                         !.bear_hits = Append(@, NotPhrase(phrase))]
         ELSE [st EXCEPT !.bull_score = @ + PhraseWeight,
                         !.bull_hits = Append(@, phrase)]

\* BearishPhraseStep with the weight added for every occurrence of the phrase.
BearishPhraseStep_PerOccurrence(st, text_lower, phrase) ==
    IF ~Contains(text_lower, phrase) THEN st
    ELSE IF Negated(text_lower, phrase)
         THEN [st EXCEPT !.bull_score =
                             @ + PhraseWeight * Cardinality(Occurrences(text_lower, phrase)),
                         !.bull_hits = Append(@, NoPhrase(phrase))]
         ELSE [st EXCEPT !.bear_score =
                             @ + PhraseWeight * Cardinality(Occurrences(text_lower, phrase)),
                         !.bear_hits = Append(@, phrase)]

\* One iteration of the loop over BEARISH_PHRASES.
BearishPhraseStep(st, text_lower, phrase) ==
    IF ~Contains(text_lower, phrase) THEN st
    ELSE IF Negated(text_lower, phrase)
         THEN [st EXCEPT !.bull_score = @ + PhraseWeight,
                         !.bull_hits = Append(@, NoPhrase(phrase))]
         ELSE [st EXCEPT !.bear_score = @ + PhraseWeight,
                         !.bear_hits = Append(@, phrase)]

\* The position i (0-based, between text[i-1] and text[i]) is a regex word
\* boundary \b: exactly one of its two sides is a word character.
WordBoundary(text, i) ==
    LET left  == i >= 1 /\ IsWordChar(text[i])
        right == i < Len(text) /\ IsWordChar(text[i + 1])
    IN  left # right

\* The compiled pattern \bword\b with re.IGNORECASE matches text at offset i.
PatternMatchAt(word, text, i) ==
    /\ i >= 0
    /\ i + Len(word) <= Len(text)
    /\ \A k \in 1..Len(word) : LowerChar(text[i + k]) = LowerChar(word[k])
    /\ WordBoundary(text, i)
    /\ WordBoundary(text, i + Len(word))

\* PatternSearch without the \b anchors: the word as a plain substring, in
\* any case.
PatternSearch_Substring(word, text) ==
    \E i \in 0..(Len(text) - Len(word)) :
        \A k \in 1..Len(word) : LowerChar(text[i + k]) = LowerChar(word[k])

\* pattern.search(text) finds a match.
PatternSearch(word, text) ==
    \E i \in 0..(Len(text) - Len(word)) :
        LowerChar(text[i + 1]) = LowerChar(word[1]) /\ PatternMatchAt(word, text, i)

\* BullishWordStep with the negation check of the phrases applied to the
\* word: a negated bullish word counts as bearish.
BullishWordStep_Negatable(st, text, word) ==
    IF ~PatternSearch(word, text) THEN st
    ELSE IF Negated(lower(text), word)
         THEN [st EXCEPT !.bear_score = @ + WordWeight,
                         !.bear_hits = Append(@, NotPhrase(word))]
         ELSE [st EXCEPT !.bull_score = @ + WordWeight,
                         !.bull_hits = IF InList(word, @) THEN @ ELSE Append(@, word)]

\* One iteration of the loop over _BULL_WORD_PATTERNS.
BullishWordStep(st, text, word) ==
    IF ~PatternSearch(word, text) THEN st
    ELSE [st EXCEPT !.bull_score = @ + WordWeight,
                    !.bull_hits = IF InList(word, @) THEN @ ELSE Append(@, word)]

\* BearishWordStep over every match of the pattern (finditer): the word is
\* counted and appended once per match.
BearishWordStep_EachMatch(st, text, word) ==
    LET n == Cardinality({ i \in 0..(Len(text) - Len(word)) :
                             PatternMatchAt(word, text, i) })
    IN  IF n = 0 THEN st
        ELSE [st EXCEPT !.bear_score = @ + n * WordWeight,
                        !.bear_hits = @ \o [ k \in 1..n |-> word ]]

\* One iteration of the loop over _BEAR_WORD_PATTERNS.
BearishWordStep(st, text, word) ==
    IF ~PatternSearch(word, text) THEN st
    ELSE [st EXCEPT !.bear_score = @ + WordWeight,
                    !.bear_hits = IF InList(word, @) THEN @ ELSE Append(@, word)]

\* The locals after an iteration are values: each iteration of a loop is
\* evaluated before the next one starts.
Evaluated(st) == st.bull_score >= 0 /\ st.bear_score >= 0

RECURSIVE ForBullishPhrases(_, _, _)
\* for phrase in BULLISH_PHRASES, from the i-th entry on.
ForBullishPhrases(st, text_lower, i) ==
    IF i > Len(BULLISH_PHRASES) THEN st
    ELSE LET next == BullishPhraseStep(st, text_lower, BULLISH_PHRASES[i])
         IN  IF Evaluated(next)
             THEN ForBullishPhrases(next, text_lower, i + 1)
             ELSE next

RECURSIVE ForBearishPhrases(_, _, _)
\* for phrase in BEARISH_PHRASES, from the i-th entry on.
ForBearishPhrases(st, text_lower, i) ==
    IF i > Len(BEARISH_PHRASES) THEN st
    ELSE LET next == BearishPhraseStep(st, text_lower, BEARISH_PHRASES[i])
         IN  IF Evaluated(next)
             THEN ForBearishPhrases(next, text_lower, i + 1)
             ELSE next

RECURSIVE ForBullishWords(_, _, _)
\* for word, pattern in _BULL_WORD_PATTERNS, from the i-th entry on.
ForBullishWords(st, text, i) ==
    IF i > Len(BULLISH_WORDS) THEN st
    ELSE LET next == BullishWordStep(st, text, BULLISH_WORDS[i])
         IN  IF Evaluated(next)
             THEN ForBullishWords(next, text, i + 1)
             ELSE next

RECURSIVE ForBearishWords(_, _, _)
\* for word, pattern in _BEAR_WORD_PATTERNS, from the i-th entry on.
ForBearishWords(st, text, i) ==
    IF i > Len(BEARISH_WORDS) THEN st
    ELSE LET next == BearishWordStep(st, text, BEARISH_WORDS[i])
         IN  IF Evaluated(next)
             THEN ForBearishWords(next, text, i + 1)
             ELSE next

\* Phase 1: the multi-word phrases, bullish list first.
Phase1(st, text_lower) ==
    ForBearishPhrases(ForBullishPhrases(st, text_lower, 1), text_lower, 1)

\* Phase 2: the single words, bullish list first, on the original text.
Phase2(st, text) ==
    ForBearishWords(ForBullishWords(st, text, 1), text, 1)

\* Scan with the two phases in the other order.
Scan_WordsFirst(text) == Phase1(Phase2(InitialLocals, text), lower(text))

\* The scan of the lexicon: phase 1 on text.lower(), then phase 2 on text.
Scan(text) == Phase2(Phase1(InitialLocals, lower(text)), text)

\* Decide without its two one-sided rules: a lone single-word match stays
\* neutral.
Decide_GapOnly(st) ==
    LET diff == st.bull_score - st.bear_score
    IN  IF diff >= 2
        THEN [sentiment |-> "bullish", keywords |-> st.bull_hits, line |-> 257]
        ELSE IF diff <= -2
        THEN [sentiment |-> "bearish", keywords |-> st.bear_hits, line |-> 259]
        ELSE [sentiment |-> "neutral",
              keywords |-> IF st.bull_hits # <<>> \/ st.bear_hits # <<>>
                           THEN st.bull_hits \o st.bear_hits
                           ELSE <<>>,
              line |-> 264]

\* Decide with a gap of 1 instead of 2.
Decide_GapOne(st) ==
    LET diff == st.bull_score - st.bear_score
    IN  IF diff >= 1
        THEN [sentiment |-> "bullish", keywords |-> st.bull_hits, line |-> 257]
        ELSE IF diff <= -1
        THEN [sentiment |-> "bearish", keywords |-> st.bear_hits, line |-> 259]
        ELSE IF st.bull_score > 0 /\ st.bear_score = 0
        THEN [sentiment |-> "bullish", keywords |-> st.bull_hits, line |-> 261]
        ELSE IF st.bear_score > 0 /\ st.bull_score = 0
        THEN [sentiment |-> "bearish", keywords |-> st.bear_hits, line |-> 263]
        ELSE [sentiment |-> "neutral",
              keywords |-> IF st.bull_hits # <<>> \/ st.bear_hits # <<>>
                           THEN st.bull_hits \o st.bear_hits
                           ELSE <<>>,
              line |-> 264]

\* Decide with the neutral result listing the bearish terms first.
Decide_BearFirst(st) ==
    LET diff == st.bull_score - st.bear_score
    IN  IF diff >= 2
        THEN [sentiment |-> "bullish", keywords |-> st.bull_hits, line |-> 257]
        ELSE IF diff <= -2
        THEN [sentiment |-> "bearish", keywords |-> st.bear_hits, line |-> 259]
        ELSE IF st.bull_score > 0 /\ st.bear_score = 0
        THEN [sentiment |-> "bullish", keywords |-> st.bull_hits, line |-> 261]
        ELSE IF st.bear_score > 0 /\ st.bull_score = 0
        THEN [sentiment |-> "bearish", keywords |-> st.bear_hits, line |-> 263]
        ELSE [sentiment |-> "neutral",
              keywords |-> IF st.bull_hits # <<>> \/ st.bear_hits # <<>>
                           THEN st.bear_hits \o st.bull_hits
                           ELSE <<>>,
              line |-> 264]

\* Decide returning every matched term with a bullish or bearish label, as
\* it does with a neutral one.
Decide_AllTerms(st) ==
    LET diff == st.bull_score - st.bear_score
    IN  IF diff >= 2
        THEN [sentiment |-> "bullish", keywords |-> st.bull_hits \o st.bear_hits,
              line |-> 257]
        ELSE IF diff <= -2
        THEN [sentiment |-> "bearish", keywords |-> st.bull_hits \o st.bear_hits,
              line |-> 259]
        ELSE IF st.bull_score > 0 /\ st.bear_score = 0
        THEN [sentiment |-> "bullish", keywords |-> st.bull_hits, line |-> 261]
        ELSE IF st.bear_score > 0 /\ st.bull_score = 0
        THEN [sentiment |-> "bearish", keywords |-> st.bear_hits, line |-> 263]
        ELSE [sentiment |-> "neutral",
              keywords |-> IF st.bull_hits # <<>> \/ st.bear_hits # <<>>
                           THEN st.bull_hits \o st.bear_hits
                           ELSE <<>>,
              line |-> 264]

\* Decide without its last return statement: with no rule taken the function
\* ends and returns None.
Decide_NoFallback(st) ==
    LET diff == st.bull_score - st.bear_score
    IN  IF diff >= 2
        THEN [sentiment |-> "bullish", keywords |-> st.bull_hits, line |-> 257]
        ELSE IF diff <= -2
        THEN [sentiment |-> "bearish", keywords |-> st.bear_hits, line |-> 259]
        ELSE IF st.bull_score > 0 /\ st.bear_score = 0
        THEN [sentiment |-> "bullish", keywords |-> st.bull_hits, line |-> 261]
        ELSE IF st.bear_score > 0 /\ st.bull_score = 0
        THEN [sentiment |-> "bearish", keywords |-> st.bear_hits, line |-> 263]
        ELSE [sentiment |-> "None", keywords |-> <<>>, line |-> 0]

\* The decision on the final tallies; line is the return statement taken.
Decide(st) ==
    LET diff == st.bull_score - st.bear_score
    IN  IF diff >= 2
        THEN [sentiment |-> "bullish", keywords |-> st.bull_hits, line |-> 257]
        ELSE IF diff <= -2
        THEN [sentiment |-> "bearish", keywords |-> st.bear_hits, line |-> 259]
        ELSE IF st.bull_score > 0 /\ st.bear_score = 0
        THEN [sentiment |-> "bullish", keywords |-> st.bull_hits, line |-> 261]
        ELSE IF st.bear_score > 0 /\ st.bull_score = 0
        THEN [sentiment |-> "bearish", keywords |-> st.bear_hits, line |-> 263]
        ELSE [sentiment |-> "neutral",
              keywords |-> IF st.bull_hits # <<>> \/ st.bear_hits # <<>>
                           THEN st.bull_hits \o st.bear_hits
                           ELSE <<>>,
              line |-> 264]

\* classify_sentiment(text): the locals at the return and the value returned.
classify_sentiment(none, text) ==
    IF Falsy(none, text)
    THEN [locals |-> InitialLocals,
          ret |-> [sentiment |-> "neutral", keywords |-> <<>>, line |-> 198]]
    ELSE LET st == Scan(text)
         IN  [locals |-> st, ret |-> Decide(st)]

\* ------------------------------------------------------------------------
\* build_impact_note
\* ------------------------------------------------------------------------

\* str.upper() on the characters that have another upper case: a-z map to A-Z.
UpperTable == [ c \in { LowerCase[i] : i \in DOMAIN LowerCase } |->
                  UpperCase[CHOOSE i \in DOMAIN LowerCase : LowerCase[i] = c] ]

LowerChars == Range(LowerCase)

UpperChar(c) == IF c \in LowerChars THEN UpperTable[c] ELSE c

\* The cased characters of the model's alphabet: the letters.
IsCased(c) == c \in LowerChars \/ c \in UpperChars

\* str.title(): a letter that follows a letter is lower-cased, every other
\* letter is upper-cased, and the other characters are kept.
title(s) ==
    [ i \in 1..Len(s) |->
        IF ~IsCased(s[i]) THEN s[i]
        ELSE IF i > 1 /\ IsCased(s[i - 1]) THEN LowerChar(s[i])
        ELSE UpperChar(s[i]) ]

RECURSIVE join(_, _)
\* sep.join(parts)
join(sep, parts) ==
    IF Len(parts) = 0 THEN <<>>
    ELSE IF Len(parts) = 1 THEN parts[1]
    ELSE parts[1] \o sep \o join(sep, Tail(parts))

\* The number of terms a note cites at most, keywords[:4].
CitedTerms == 4

Min(a, b) == IF a <= b THEN a ELSE b

\* The slice lst[:n] of a list.
Prefix(lst, n) == SubSeq(lst, 1, Min(n, Len(lst)))

\* The terms of the whole list, title-cased and joined.
Triggers_AllTerms(keywords) ==
    join(<<",", " ">>, [ i \in 1..Len(keywords) |-> title(keywords[i]) ])

\* ", ".join(kw.title() for kw in keywords[:4])
Triggers(keywords) ==
    LET first == Prefix(keywords, CitedTerms)
    IN  join(<<",", " ">>, [ i \in 1..Len(first) |-> title(first[i]) ])

\* build_impact_note citing the title after the terms.
build_impact_note_TitleCited(sentiment, keywords, title_arg) ==
    [line |-> IF sentiment = "bullish" THEN 272
              ELSE IF sentiment = "bearish" THEN 283 ELSE 294,
     head |-> "",
     cited |-> Triggers(keywords) \o title_arg,
     tail |-> ""]

\* build_impact_note(sentiment, keywords, title): the return statement taken
\* (line) and the string returned, as the text before the cited terms, the
\* cited terms and the text after them.  title_arg is not read.
build_impact_note(sentiment, keywords, title_arg) ==
    IF sentiment = "bullish"
    THEN IF Len(keywords) > 0
         THEN [line |-> 272,
               head |-> "This news signals positive momentum. Key triggers: ",
               cited |-> Triggers(keywords),
               tail |-> ". Such developments typically indicate business growth, improved financials, or market confidence \\u2014 which can support the stock's long-term trajectory."]
         ELSE [line |-> 279,
               head |-> "This news has a positive tone that could support investor confidence.",
               cited |-> <<>>,
               tail |-> ""]
    ELSE IF sentiment = "bearish"
    THEN IF Len(keywords) > 0
         THEN [line |-> 283,
               head |-> "This news raises caution. Key concerns: ",
               cited |-> Triggers(keywords),
               tail |-> ". These factors may indicate operational challenges, financial stress, or governance issues \\u2014 which could put downward pressure on the stock."]
         ELSE [line |-> 290,
               head |-> "This news has a negative tone that warrants caution for investors.",
               cited |-> <<>>,
               tail |-> ""]
    ELSE IF Len(keywords) > 0
         THEN [line |-> 294,
               head |-> "This news contains mixed signals (",
               cited |-> Triggers(keywords),
               tail |-> ") and does not clearly lean positive or negative. The impact on the stock is ambiguous \\u2014 monitor for follow-up developments."]
         ELSE [line |-> 299,
               head |-> "This news is neutral and does not strongly indicate either positive or negative impact on the stock. Monitor for follow-up developments.",
               cited |-> <<>>,
               tail |-> ""]

\* ------------------------------------------------------------------------
\* Python floats (IEEE 754 binary64, round to nearest, ties to even)
\* ------------------------------------------------------------------------
\* A float is a sign and a magnitude.  The magnitude is an exact binary
\* fixed-point number of NLimbs limbs of 15 bits, least significant limb
\* first, FracLimbs of them after the binary point; every operation computes
\* the exact result and rounds it to 53 significant bits.  The amounts, the
\* indices and the scores of the model are below 2^30 and, unless 0, above
\* 2^-22 in magnitude, so every float the program computes on them is
\* such a fixed-point number.

\* The base of a limb, 2^15.
LimbBase == 32768

\* The bits of a limb.
LimbBits == 15

NLimbs == 7

FracLimbs == 5

\* The significant bits of a binary64 float.
Precision == 53

Limbs == 1..NLimbs

\* Pow2[k + 1] = 2^k
Pow2 == <<1, 2, 4, 8, 16, 32, 64, 128, 256, 512, 1024, 2048, 4096, 8192,
          16384, 32768>>

ZeroMag == [i \in Limbs |-> 0]

\* float(n) for an integer n with |n| < 2^30.
FromInt(n) ==
    LET a == IF n < 0 THEN 0 - n ELSE n
    IN  [neg |-> n < 0,
         mag |-> [i \in Limbs |->
                    IF i = FracLimbs + 1 THEN a % LimbBase
                    ELSE IF i = FracLimbs + 2 THEN a \div LimbBase
                    ELSE 0]]

\* The value a division by zero leaves: ZeroDivisionError was raised instead
\* of a float; every operation on it gives it again.
ZeroDivisionError == [neg |-> FALSE, mag |-> <<>>]

IsError(x) == x.mag = <<>>

\* x == 0 (0.0 and -0.0 alike).
IsZero(x) == x.mag = ZeroMag

\* A float of the given sign and magnitude; zero is kept with the sign +.
Signed(neg, mag) == [neg |-> neg /\ mag # ZeroMag, mag |-> mag]

\* The magnitude x is greater than the magnitude y.
MagGt(x, y) ==
    \E i \in Limbs : x[i] > y[i] /\ \A k \in Limbs : k > i => x[k] = y[k]

\* x + y on magnitudes: the limb sums with the carries, a carry entering limb
\* i when a lower limb overflows and the limbs between are full.
MagAdd(x, y) ==
    LET s == [i \in Limbs |-> x[i] + y[i]]
        carry(i) == \E j \in 1..(i - 1) :
                        /\ s[j] >= LimbBase
                        /\ \A k \in (j + 1)..(i - 1) : s[k] = LimbBase - 1
    IN  [i \in Limbs |-> (s[i] + (IF carry(i) THEN 1 ELSE 0)) % LimbBase]

\* x - y on magnitudes, for x >= y.
MagSub(x, y) ==
    LET borrow(i) == \E j \in 1..(i - 1) :
                         /\ x[j] < y[j]
                         /\ \A k \in (j + 1)..(i - 1) : x[k] = y[k]
    IN  [i \in Limbs |->
            (x[i] - y[i] - (IF borrow(i) THEN 1 ELSE 0) + LimbBase) % LimbBase]

\* x * k on a magnitude, for an integer 0 <= k < 2^15.
MagMul(x, k) ==
    LET p == [i \in Limbs |-> x[i] * k]
        lo == [i \in Limbs |-> p[i] % LimbBase]
        hi == [i \in Limbs |-> IF i = 1 THEN 0 ELSE p[i - 1] \div LimbBase]
    IN  MagAdd(lo, hi)

\* The number of bits of a magnitude: the position of its leading 1.
BitLength(x) ==
    IF x = ZeroMag THEN 0
    ELSE LET t == CHOOSE i \in Limbs : x[i] # 0 /\ \A k \in Limbs : k > i => x[k] = 0
             b == CHOOSE n \in 1..LimbBits : Pow2[n] <= x[t] /\ x[t] < Pow2[n + 1]
         IN  LimbBits * (t - 1) + b

\* The limb that holds bit d (bit 0 is the least significant), and the
\* weight of that bit inside its limb.
LimbOf(d) == (d \div LimbBits) + 1

WeightOf(d) == Pow2[(d % LimbBits) + 1]

\* The magnitude 2^d in units of the last place.
MagBit(d) == [i \in Limbs |-> IF i = LimbOf(d) THEN WeightOf(d) ELSE 0]

\* x with the bits below bit d cleared, and the bits of x below bit d.
MagHigh(x, d) ==
    [i \in Limbs |->
        IF i < LimbOf(d) THEN 0
        ELSE IF i = LimbOf(d) THEN (x[i] \div WeightOf(d)) * WeightOf(d)
        ELSE x[i]]

MagLow(x, d) ==
    [i \in Limbs |->
        IF i < LimbOf(d) THEN x[i]
        ELSE IF i = LimbOf(d) THEN x[i] % WeightOf(d)
        ELSE 0]

\* Bit d of x is 1.
BitSet(x, d) == (x[LimbOf(d)] \div WeightOf(d)) % 2 = 1

\* The magnitude x, followed by further non-zero bits when inexact, rounded
\* to Precision significant bits: to the nearest, a tie to the even one.
Round(x, inexact) ==
    LET d == BitLength(x) - Precision
    IN  IF d <= 0 THEN x
        ELSE LET low == MagLow(x, d)
                 half == MagBit(d - 1)
                 up == \/ MagGt(low, half)
                       \/ low = half /\ (inexact \/ BitSet(x, d))
             IN  IF up THEN MagAdd(MagHigh(x, d), MagBit(d)) ELSE MagHigh(x, d)

\* The integer an integer-valued float below 2^15 holds.
IntOf(x) == x.mag[FracLimbs + 1]

\* a / b for integer-valued floats below 2^15 in magnitude: the long division
\* of the two integers, FracLimbs limbs after the point, then rounded.
\* Python raises ZeroDivisionError when b is 0.
FDiv(a, b) ==
    IF IsError(a) \/ IsError(b) \/ IsZero(b) THEN ZeroDivisionError
    ELSE LET n == IntOf(a)
             d == IntOf(b)
             r0 == n % d
             r1 == (r0 * LimbBase) % d
             r2 == (r1 * LimbBase) % d
             r3 == (r2 * LimbBase) % d
             r4 == (r3 * LimbBase) % d
             r5 == (r4 * LimbBase) % d
             q == << (r4 * LimbBase) \div d, (r3 * LimbBase) \div d,
                     (r2 * LimbBase) \div d, (r1 * LimbBase) \div d,
                     (r0 * LimbBase) \div d, n \div d, 0 >>
         IN  Signed(a.neg # b.neg, Round(q, r5 # 0))

\* x * k for a float x and an integer 0 <= k < 2^15 (k is converted to float
\* exactly).
FMul(x, k) ==
    IF IsError(x) THEN ZeroDivisionError
    ELSE Signed(x.neg, Round(MagMul(x.mag, k), FALSE))

\* x + y
FAdd(x, y) ==
    IF IsError(x) \/ IsError(y) THEN ZeroDivisionError
    ELSE IF IsZero(x) THEN y
    ELSE IF IsZero(y) THEN x
    ELSE IF x.neg # y.neg /\ x.mag = y.mag THEN FromInt(0)
    ELSE IF x.neg = y.neg THEN Signed(x.neg, Round(MagAdd(x.mag, y.mag), FALSE))
    ELSE IF MagGt(y.mag, x.mag)
         THEN Signed(y.neg, Round(MagSub(y.mag, x.mag), FALSE))
         ELSE Signed(x.neg, Round(MagSub(x.mag, y.mag), FALSE))

\* x - y
FSub(x, y) ==
    IF IsError(y) THEN ZeroDivisionError
    ELSE FAdd(x, [neg |-> ~y.neg /\ y.mag # ZeroMag, mag |-> y.mag])

\* x > y
FGt(x, y) ==
    IF x.neg /\ y.neg THEN MagGt(y.mag, x.mag)
    ELSE IF x.neg THEN FALSE
    ELSE IF y.neg THEN TRUE
    ELSE MagGt(x.mag, y.mag)

\* x < y
FLt(x, y) == FGt(y, x)

\* ------------------------------------------------------------------------
\* The value divergence of revenue and price
\* (_compute_divergence_scores and the third row of _render_charts)
\* ------------------------------------------------------------------------

\* A dict is the sequence of its (key, value) items in insertion order.
Keys(d) == { d[i][1] : i \in DOMAIN d }

\* d[y] for a key y of d.
Get(d, y) == d[CHOOSE i \in DOMAIN d : d[i][1] = y][2]

\* The dicts with keys among keys and values among values, in every
\* insertion order.
Dicts(keys, values) ==
    { d \in UNION { [1..k -> keys \X values] : k \in 0..Cardinality(keys) } :
        \A i, j \in DOMAIN d : i # j => d[i][1] # d[j][1] }

\* sorted(S) for a set of integers.
sorted(S) ==
    [i \in 1..Cardinality(S) |->
        CHOOSE y \in S : Cardinality({ z \in S : z < y }) = i - 1]

\* The common years in the order in which the revenue dict holds them.
CommonYears_Unsorted(rev, price) ==
    LET at == { i \in DOMAIN rev : rev[i][1] \in Keys(price) }
        pos == sorted(at)
    IN  [k \in DOMAIN pos |-> rev[pos[k]][1]]

\* common_years = sorted(set(rev.keys()) & set(price.keys()))
CommonYears(rev, price) == sorted(Keys(rev) \cap Keys(price))

\* [d[y] for y in common_years]; the amounts of a dict are floats.
ValuesAt(d, common_years) ==
    [i \in DOMAIN common_years |-> FromInt(Get(d, common_years[i]))]

\* The base without the guard: vals[0] itself.
Base_Unguarded(vals) == vals[1]

\* vals[0] if vals[0] != 0 else 1
Base(vals) == IF ~IsZero(vals[1]) THEN vals[1] ELSE FromInt(1)

\* The amounts of the model's series, and the 1 that replaces a base of 0.
Amounts == {0, 1, 50, 55, 100, 110, 150}

FloatAmounts == { FromInt(a) : a \in Amounts }

\* The percentage of the index.
Hundred == 100

\* v / base * 100 for every pair of amounts, computed once.
IndexOf == [v \in FloatAmounts, base \in FloatAmounts |-> FMul(FDiv(v, base), Hundred)]

\* [v / base * 100 for v in vals]
Index(vals, base) == [i \in DOMAIN vals |-> IndexOf[vals[i], base]]

\* The values an index takes, and r - p for every pair of them, computed
\* once.
IndexValues == { IndexOf[v, base] : v \in FloatAmounts, base \in FloatAmounts }

DifferenceOf == [r \in IndexValues, p \in IndexValues |-> FSub(r, p)]

RECURSIVE SumFrom(_, _, _)
\* sum(seq), from the i-th element on, with the running total acc.
SumFrom(seq, i, acc) ==
    IF i > Len(seq) THEN acc
    ELSE LET next == FAdd(acc, seq[i])
         IN  IF next.neg \in BOOLEAN THEN SumFrom(seq, i + 1, next) ELSE next

RECURSIVE CompensatedFrom(_, _, _, _)
\* sum(seq) of CPython 3.12 and later, which adds floats with Neumaier's
\* compensation: the running total s, the running compensation c.
CompensatedFrom(seq, i, s, c) ==
    IF i > Len(seq)
    THEN IF IsError(s) \/ IsZero(c) THEN s ELSE FAdd(s, c)
    ELSE LET x == seq[i]
             t == FAdd(s, x)
             lost == IF IsError(t) THEN ZeroDivisionError
                     ELSE IF ~MagGt(x.mag, s.mag)
                          THEN FAdd(FSub(s, t), x)
                          ELSE FAdd(FSub(x, t), s)
             next == FAdd(c, lost)
         IN  IF next.neg \in BOOLEAN /\ t.neg \in BOOLEAN
             THEN CompensatedFrom(seq, i + 1, t, next)
             ELSE t

\* sum(seq): CPython up to 3.11 adds from left to right, CPython from 3.12 on
\* adds with compensation.
sum(seq, compensated) ==
    IF compensated THEN CompensatedFrom(seq, 1, FromInt(0), FromInt(0))
    ELSE SumFrom(seq, 1, FromInt(0))

\* The score without the price index: the sum of the revenue indices.
Score_RevenueOnly(rev_idx, price_idx, compensated) == sum(rev_idx, compensated)

\* The score as the sum of the distances of the two indices.
Score_Absolute(rev_idx, price_idx, compensated) ==
    sum([i \in DOMAIN rev_idx |->
            [neg |-> FALSE, mag |-> DifferenceOf[rev_idx[i], price_idx[i]].mag]],
        compensated)

\* sum(r - p for r, p in zip(rev_idx, price_idx))
Score(rev_idx, price_idx, compensated) ==
    sum([i \in DOMAIN rev_idx |-> DifferenceOf[rev_idx[i], price_idx[i]]], compensated)

\* (last - prev) / prev * 100 for every pair of amounts, computed once.
ChangeOf ==
    [last \in FloatAmounts, prev \in FloatAmounts |->
        FMul(FDiv(FSub(last, prev), prev), Hundred)]

\* The change without the guard.
Change_Unguarded(vals) == ChangeOf[vals[Len(vals)], vals[Len(vals) - 1]]

\* (vals[-1] - vals[-2]) / vals[-2] * 100 if vals[-2] != 0 else 0
Change(vals) ==
    IF ~IsZero(vals[Len(vals) - 1])
    THEN ChangeOf[vals[Len(vals)], vals[Len(vals) - 1]]
    ELSE FromInt(0)

\* The width of the fair-value band, in percentage points.
Band == 10

\* The signal with the bounds of the band counted as signals.
Signal_Inclusive(gap) ==
    IF ~FLt(gap, FromInt(Band)) THEN "\\u25B2 Undervalued"
    ELSE IF ~FGt(gap, FromInt(0 - Band)) THEN "\\u25BC Overvalued"
    ELSE "\\u25C6 Fair Value"

\* signal_text of lines 1787-1794
Signal(gap) ==
    IF FGt(gap, FromInt(Band)) THEN "\\u25B2 Undervalued"
    ELSE IF FLt(gap, FromInt(0 - Band)) THEN "\\u25BC Overvalued"
    ELSE "\\u25C6 Fair Value"

\* The score of a symbol that has no score, negated: scores[sym] = -9999.
NoScore == 9999

\* What _compute_divergence_scores stores in scores[sym] for the two series
\* (value), the line that stores it, whether an exception was caught, and its
\* local common_years;
\* compensated tells which sum() the interpreter has.
compute_score(rev, price, compensated) ==
    LET common_years == CommonYears(rev, price)
        rev_vals == ValuesAt(rev, common_years)
        price_vals == ValuesAt(price, common_years)
        rev_idx == Index(rev_vals, Base(rev_vals))
        price_idx == Index(price_vals, Base(price_vals))
        total == Score(rev_idx, price_idx, compensated)
    IN  IF Len(common_years) >= 2
        THEN IF IsError(total)
             THEN [common_years |-> common_years, value |-> FromInt(0 - NoScore),
                   line |-> 1404, caught |-> TRUE]
             ELSE [common_years |-> common_years, value |-> total,
                   line |-> 1400, caught |-> FALSE]
        ELSE [common_years |-> common_years, value |-> FromInt(0 - NoScore),
              line |-> 1402, caught |-> FALSE]

\* A local that no statement has assigned.
Unbound == << >>

\* A value signal in place of the dash.
NoSignal_FairValue == "\\u25C6 Fair Value"

\* The text of the signal label when there is no signal: an em dash.
NoSignal == "\\u2014"

\* The locals of the third row of _render_charts before its first statement.
NoChart ==
    [common_years |-> Unbound, bound |-> {}, rev_idx |-> Unbound,
     price_idx |-> Unbound, rev_change |-> Unbound, price_change |-> Unbound,
     gap |-> Unbound, signal_text |-> "", text |-> "", raised |-> FALSE]

\* The third row of _render_charts (lines 1742-1818) for the two series of the
\* selected symbol: its locals at the end (bound names the assigned ones),
\* the text of the signal label, the text drawn in place of the chart, and
\* whether an exception left the function.
render_charts(rev, price) ==
    LET common_years == CommonYears(rev, price)
        rev_vals == ValuesAt(rev, common_years)
        price_vals == ValuesAt(price, common_years)
        rev_idx == Index(rev_vals, Base(rev_vals))
        price_idx == Index(price_vals, Base(price_vals))
        rev_change == Change(rev_vals)
        price_change == Change(price_vals)
        gap == FSub(rev_change, price_change)
        failed == [NoChart EXCEPT !.common_years = common_years,
                                  !.bound = {"common_years"},
                                  !.raised = TRUE]
    IN  IF Len(common_years) >= 2
        THEN IF \E i \in DOMAIN common_years :
                    IsError(rev_idx[i]) \/ IsError(price_idx[i])
             THEN failed
             ELSE IF IsError(gap)
             THEN [failed EXCEPT !.bound = {"common_years", "rev_idx", "price_idx"},
                                 !.rev_idx = rev_idx,
                                 !.price_idx = price_idx]
             ELSE [common_years |-> common_years,
                   bound |-> {"common_years", "rev_idx", "price_idx",
                              "rev_change", "price_change", "gap"},
                   rev_idx |-> rev_idx,
                   price_idx |-> price_idx,
                   rev_change |-> rev_change,
                   price_change |-> price_change,
                   gap |-> gap,
                   signal_text |-> Signal(gap),
                   text |-> "",
                   raised |-> FALSE]
        ELSE IF Len(common_years) = 1
        THEN [NoChart EXCEPT
                !.common_years = common_years,
                !.bound = {"common_years"},
                !.signal_text = NoSignal,
                !.text = "Only 1 year of overlapping data \\u2014 need at least 2 to compare trends"]
        ELSE [NoChart EXCEPT
                !.common_years = common_years,
                !.bound = {"common_years"},
                !.signal_text = NoSignal,
                !.text = "No overlapping revenue & price data available"]

\* scores holds nothing for the symbol yet.
NoResult ==
    [common_years |-> Unbound, value |-> Unbound, line |-> 0, caught |-> FALSE]

\* ------------------------------------------------------------------------
\* The news endpoint (src/api/news.py)
\* ------------------------------------------------------------------------

\* A query string is the sequence of its fields <<name, value>>.
\* parse_qs(query)[name]: the values of the fields of that name that are not
\* blank, in the order of the query; no entry when there is none.
parse_qs(query, name) ==
    LET fields == SelectSeq(query, LAMBDA f : f[1] = name /\ f[2] # "")
    IN  [i \in DOMAIN fields |-> fields[i][2]]

\* params.get("stock", [""])[0]
StockOf(query) ==
    LET values == parse_qs(query, "stock")
    IN  IF Len(values) = 0 THEN "" ELSE values[1]

\* _cors() without the header of the allowed methods.
_cors_OriginOnly == { << "Access-Control-Allow-Origin", "*" >> }

\* The headers _cors() sends.
_cors ==
    { << "Access-Control-Allow-Origin", "*" >>,
      << "Access-Control-Allow-Methods", "GET, OPTIONS" >> }

\* _json_response(code, data): the response written.
_json_response(code, data) ==
    [code |-> code,
     headers |-> _cors \cup { << "Content-Type", "application/json" >> },
     body |-> data]

\* The most items of a feed that become articles, count=10.
count == 10

\* An element of an item is the set of its texts: empty when the item has no
\* such element.  The date of an article: "" without pubDate, the formatted
\* date when pandas parses it, else its first 16 characters.
DateShort(pubDate) ==
    IF pubDate = {} THEN ""
    ELSE IF pubDate = { "Fri, 06 Nov 2026 10:00:00 GMT" } THEN "Nov 06"
    ELSE CHOOSE d \in pubDate : TRUE

\* The article of an item (lines 44-59).
ArticleOf(item) ==
    [title |-> IF item.title = {} THEN "" ELSE CHOOSE t \in item.title : TRUE,
     source |-> IF item.source = {} THEN "Unknown"
                ELSE CHOOSE t \in item.source : TRUE,
     date |-> DateShort(item.pubDate)]

\* _fetch_news(stock_name) when the network and the feed behave as feed says:
\* fails names the call that raises ("" when none does), items are the items
\* of the feed.  The result is the list returned or the exception raised.
_fetch_news(stock_name, feed) ==
    IF feed.fails = "urlopen"
    THEN [raised |-> TRUE, message |-> "<urlopen error timed out>", results |-> << >>]
    ELSE IF feed.fails = "decode"
    THEN [raised |-> TRUE, message |-> "'utf-8' codec can't decode byte",
          results |-> << >>]
    ELSE IF feed.fails = "fromstring"
    THEN [raised |-> TRUE, message |-> "syntax error: line 1, column 0",
          results |-> << >>]
    ELSE [raised |-> FALSE, message |-> "",
          results |-> [i \in 1..Min(count, Len(feed.items)) |->
                          ArticleOf(feed.items[i])]]

\* do_GET with the except clause re-raising instead of answering.
do_GET_Reraise(query, feed) ==
    LET stock == StockOf(query)
        fetched == _fetch_news(stock, feed)
    IN  IF stock = ""
        THEN [fetches |-> 0,
              sent |-> << _json_response(400, [error |-> "Missing 'stock' parameter"]) >>]
        ELSE IF fetched.raised
        THEN [fetches |-> 1, sent |-> << >>]
        ELSE [fetches |-> 1,
              sent |-> << _json_response(200, [articles |-> fetched.results]) >>]

\* do_GET for the query of the request path: the number of feeds it fetches
\* and the responses it writes.
do_GET(query, feed) ==
    LET stock == StockOf(query)
        fetched == _fetch_news(stock, feed)
    IN  IF stock = ""
        THEN [fetches |-> 0,
              sent |-> << _json_response(400, [error |-> "Missing 'stock' parameter"]) >>]
        ELSE IF fetched.raised
        THEN [fetches |-> 1,
              sent |-> << _json_response(200, [articles |-> << >>,
                                               warning |-> fetched.message]) >>]
        ELSE [fetches |-> 1,
              sent |-> << _json_response(200, [articles |-> fetched.results]) >>]

\* do_OPTIONS: the response written.
do_OPTIONS == [code |-> 200, headers |-> _cors, body |-> [empty |-> TRUE]]

\* No request has been served.
NoRequests == << >>

\* ------------------------------------------------------------------------
\* The stock picker window (class StockPicker)
\* ------------------------------------------------------------------------

\* d.get(k, default) of a dict.
GetOr(d, k, default) ==
    IF k \in Keys(d) THEN Get(d, k) ELSE default

\* The dict d after d[k] = v: a key keeps its place, a new key comes last.
Put(d, k, v) ==
    IF k \in Keys(d)
    THEN [i \in DOMAIN d |-> IF d[i][1] = k THEN <<k, v>> ELSE d[i]]
    ELSE Append(d, <<k, v>>)

\* The map build_industry_map gives: the sectors with their industries.
IndustryMap ==
    << <<"Energy", <<"Oil & Gas">> >>,
       <<"Technology", <<"IT Services">> >> >>

\* The quotes yf.screen gives for an industry, by market capitalisation; a
\* symbol is held as its ticker and its exchange suffix, a market
\* capitalisation in rupees.  The quotes carry no ratios.
Quotes(industry) ==
    IF industry = "Oil & Gas"
    THEN << [symbol |-> <<"RELIANCE", ".NS">>, shortName |-> "Reliance",
             marketCap |-> 500000000],
            [symbol |-> <<"ONGC", ".NS">>, shortName |-> "ONGC",
             marketCap |-> 300000000] >>
    ELSE IF industry = "IT Services"
    THEN << [symbol |-> <<"TCS", ".NS">>, shortName |-> "TCS",
             marketCap |-> 400000000],
            [symbol |-> <<"INFY", ".NS">>, shortName |-> "Infosys",
             marketCap |-> 200000000] >>
    ELSE << >>

\* What the data source gives for a symbol: the income statement and the
\* price history as the dicts the worker builds from them, or a failure of
\* the request.  The price of ONGC went from 1 to 150, Infosys is not served.
Fetched(sym) ==
    IF sym = <<"RELIANCE", ".NS">>
    THEN [fails |-> FALSE, rev |-> << <<2023, 150>>, <<2022, 100>> >>,
          price |-> << <<2022, 50>>, <<2023, 55>> >>]
    ELSE IF sym = <<"ONGC", ".NS">>
    THEN [fails |-> FALSE, rev |-> << <<2023, 100>>, <<2022, 100>> >>,
          price |-> << <<2022, 1>>, <<2023, 150>> >>]
    ELSE IF sym = <<"TCS", ".NS">>
    THEN [fails |-> FALSE, rev |-> << <<2023, 100>> >>,
          price |-> << <<2022, 50>>, <<2023, 55>> >>]
    ELSE [fails |-> TRUE, rev |-> << >>, price |-> << >>]

RECURSIVE Str(_)
\* The string a symbol is.
Str(sym) ==
    IF sym = << >> THEN "" ELSE Head(sym) \o Str(Tail(sym))

\* sym.replace(old, "")
replace(sym, old) ==
    SelectSeq(sym, LAMBDA piece : piece # old)

RECURSIVE Grouped(_)
\* The digits of n, the thousands separated by commas: f"{n:,}".
Grouped(n) ==
    IF n < 1000 THEN ToString(n)
    ELSE Grouped(n \div 1000) \o ","
         \o (IF n % 1000 < 10 THEN "00" ELSE IF n % 1000 < 100 THEN "0" ELSE "")
         \o ToString(n % 1000)

\* The integer nearest to n / d, a tie going to the even one.
Nearest(n, d) ==
    LET q == n \div d
        r == n % d
    IN  IF 2 * r > d \/ (2 * r = d /\ q % 2 = 1) THEN q + 1 ELSE q

\* A crore.
Crore == 10000000

\* fmt_inr(value) for an amount below 2^31, which is below a lakh crore.
fmt_inr(value) ==
    IF value = 0 THEN "N/A"
    ELSE IF value >= Crore
    THEN "\\u20b9" \o Grouped(Nearest(value, Crore)) \o " Cr"
    ELSE "\\u20b9" \o Grouped(value)

\* f"{x:+.0f}" of a float.
SignedInteger(x) ==
    LET whole == x.mag[FracLimbs + 1] + x.mag[FracLimbs + 2] * LimbBase
        part == [i \in Limbs |-> IF i <= FracLimbs THEN x.mag[i] ELSE 0]
        half == [i \in Limbs |-> IF i = FracLimbs THEN LimbBase \div 2 ELSE 0]
        up == MagGt(part, half) \/ (part = half /\ whole % 2 = 1)
    IN  (IF x.neg THEN "-" ELSE "+")
        \o ToString(IF up THEN whole + 1 ELSE whole)

\* The sort options the user is given (the first two of SORT_OPTIONS).
SORT_OPTIONS == << "Value Divergence (default)", "Market Cap" >>

\* The items in descending order of their keys, items of equal keys in
\* their order: list.sort(key=..., reverse=True).
SortedDescending(items, keys) ==
    LET n == Len(items)
        rank(i) == Cardinality({ j \in 1..n : FGt(keys[j], keys[i]) })
                   + Cardinality({ j \in 1..i : keys[j] = keys[i] })
    IN  [p \in 1..n |-> items[CHOOSE i \in 1..n : rank(i) = p]]

\* The industry_caps the sector worker computes from the quotes of a sector.
Overview(sector) ==
    IF sector = "Energy" THEN << <<"Oil & Gas", 800000000>> >>
    ELSE IF sector = "Technology" THEN << <<"IT Services", 600000000>> >>
    ELSE << >>

\* The window after __init__: _load_industries has started its worker.
Window0 ==
    [ industry_map |-> << >>, sector_var |-> "", industry_var |-> "",
      sort_var |-> SORT_OPTIONS[1], stock_var |-> "", stock_combo |-> << >>,
      go_btn |-> "disabled", load_btn |-> "normal",
      stock_details |-> << >>, divergence_scores |-> << >>,
      names_to_symbols |-> << >>, computing_scores |-> FALSE,
      pie_level |-> 0, pie_wedge_keys |-> << >>, pie |-> << >>,
      back_btn |-> FALSE, sector_data |-> << >>,
      sector_data_loading |-> FALSE, status |-> "Loading industries...",
      charts |-> << >>,
      in_flight |-> { [work |-> [kind |-> "industries"], id |-> 1] },
      started |-> 1,
      \* the history of the window: the user's actions so far, the workers
      \* started before the last sector change, the screener worker whose
      \* quotes the stock state holds
      events |-> 0, changed_at |-> 0, details_by |-> 0 ]

\* threading.Thread(target=work, daemon=True).start(): the worker is in
\* flight until the callback it schedules has run.
Start(g, work) ==
    [g EXCEPT !.in_flight = @ \cup { [work |-> work, id |-> g.started + 1] },
              !.started = @ + 1]

\* _render_pie_level1: the industries of _sector_data under the title of the
\* selected sector.
_render_pie_level1(g) ==
    LET items == SortedDescending(g.sector_data,
                     [i \in DOMAIN g.sector_data |-> FromInt(g.sector_data[i][2])])
        shown == SelectSeq(items, LAMBDA item : item[2] > 0)
    IN  [g EXCEPT !.pie_level = 1,
                  !.pie_wedge_keys = [i \in DOMAIN shown |-> shown[i][1]],
                  !.pie = [title |-> g.sector_var, data |-> g.sector_data],
                  !.back_btn = FALSE]

\* _fetch_sector_data: a worker is started unless one is in flight.
_fetch_sector_data(g, sector) ==
    IF g.sector_data_loading THEN g
    ELSE Start([g EXCEPT !.sector_data_loading = TRUE,
                         !.status = "Loading sector overview for " \o sector \o "..."],
               [kind |-> "sector", sector |-> sector])

\* _on_sector_change; the KPI cards are not part of the model.
_on_sector_change(g) ==
    LET sector == g.sector_var
        industries == GetOr(g.industry_map, sector, << >>)
        reset == [g EXCEPT
                    !.industry_var = IF industries # << >> THEN industries[1] ELSE @,
                    !.stock_details = << >>,
                    !.divergence_scores = << >>,
                    !.names_to_symbols = << >>,
                    !.stock_combo = << >>,
                    !.stock_var = "",
                    !.go_btn = "disabled"]
    IN  _fetch_sector_data(reset, sector)

\* _on_industries_loaded; the fixture holds its sectors in sorted order.
_on_industries_loaded(g, imap) ==
    LET sectors == [i \in DOMAIN imap |-> imap[i][1]]
        loaded == [g EXCEPT !.industry_map = imap]
        first == IF sectors # << >>
                 THEN _on_sector_change([loaded EXCEPT !.sector_var = sectors[1]])
                 ELSE loaded
    IN  [first EXCEPT !.status = "Ready \\u2014 " \o ToString(Len(sectors))
                                 \o " sectors loaded"]

\* _on_sector_data_loaded, the callback of the sector worker.
_on_sector_data_loaded(g, sector, industry_caps) ==
    LET done == [g EXCEPT !.sector_data_loading = FALSE]
    IN  IF g.sector_var # sector THEN done
        ELSE _render_pie_level1(
                 [done EXCEPT !.sector_data = industry_caps,
                              !.status = "Sector overview: "
                                  \o ToString(Len(industry_caps))
                                  \o " industries in " \o sector])

\* _on_back_to_sector, the command of the back button.
_on_back_to_sector(g) ==
    LET back == [g EXCEPT !.pie_level = 1]
    IN  IF g.sector_data # << >> THEN _render_pie_level1(back)
        ELSE _fetch_sector_data(back, g.sector_var)

\* _on_load_stocks: the stock state is reset and the screener worker starts.
_on_load_stocks(g) ==
    LET industry == g.industry_var
    IN  IF industry = "" THEN g
        ELSE Start([g EXCEPT !.load_btn = "disabled",
                             !.go_btn = "disabled",
                             !.status = "Screening NSE stocks in " \o industry \o "...",
                             !.stock_details = << >>,
                             !.divergence_scores = << >>,
                             !.names_to_symbols = << >>,
                             !.stock_combo = << >>,
                             !.stock_var = ""],
                   [kind |-> "screen", industry |-> industry])

\* The label of a stock in the dropdown.
Label(name, sym, suffix) ==
    name \o "  (" \o Str(replace(sym, ".NS")) \o ")" \o suffix

\* The symbols of the stock details that _render_pie_only and _render_charts
\* draw a wedge for.
WedgeKeys(g, same_industry) ==
    SelectSeq(same_industry,
              LAMBDA t : GetOr(g.stock_details, t, [marketCap |-> 0]).marketCap > 0)

\* The symbols of the stock details of an industry.
SameIndustry(g, industry) ==
    LET held == SelectSeq(g.stock_details, LAMBDA item : item[2].industry = industry)
    IN  [i \in DOMAIN held |-> held[i][1]]

\* _render_pie_only
_render_pie_only(g) ==
    [g EXCEPT !.pie_level = 2,
              !.pie_wedge_keys = WedgeKeys(g, SameIndustry(g, g.industry_var)),
              !.pie = [title |-> g.industry_var, data |-> << >>],
              !.back_btn = TRUE]

\* _compute_divergence_scores: the score worker starts.
_compute_divergence_scores(g, symbols) ==
    Start([g EXCEPT !.computing_scores = TRUE],
          [kind |-> "scores", symbols |-> symbols])

RECURSIVE DetailsOf(_, _, _)
\* The dict details after the items of the quotes from the i-th on.
DetailsOf(details, quotes, industry) ==
    IF quotes = << >> THEN details
    ELSE LET q == Head(quotes)
         IN  DetailsOf(Put(details, q.symbol,
                           [name |-> q.shortName, industry |-> industry,
                            marketCap |-> q.marketCap]),
                       Tail(quotes), industry)

RECURSIVE NamesOf(_, _)
\* _names_to_symbols after the labels of the quotes are entered.
NamesOf(names, quotes) ==
    IF quotes = << >> THEN names
    ELSE LET q == Head(quotes)
         IN  NamesOf(Put(names, Label(q.shortName, q.symbol, ""), q.symbol),
                     Tail(quotes))

\* _on_stocks_loaded, the callback of the screener worker.
_on_stocks_loaded(g, quotes, total, industry) ==
    LET details == DetailsOf(<< >>, quotes, industry)
        entries == [i \in DOMAIN quotes |->
                      << Label(quotes[i].shortName, quotes[i].symbol, ""),
                         quotes[i].symbol >>]
        sorted_entries == SortedDescending(entries,
                      [i \in DOMAIN entries |->
                          FromInt(GetOr(details, entries[i][2], [marketCap |-> 0]).marketCap)])
        labels == [i \in DOMAIN sorted_entries |-> sorted_entries[i][1]]
        loaded == [g EXCEPT
                     !.names_to_symbols = NamesOf(@, quotes),
                     !.stock_details = details,
                     !.stock_combo = labels,
                     !.stock_var = IF labels # << >> THEN labels[1] ELSE @,
                     !.load_btn = "normal",
                     !.go_btn = "normal",
                     !.status = ToString(Len(quotes)) \o " stocks loaded (of "
                         \o ToString(total) \o " in " \o industry
                         \o ") \\u2014 computing value scores..."]
        computing == _compute_divergence_scores(loaded,
                         [i \in DOMAIN details |-> details[i][1]])
    IN  _render_pie_only(computing)

\* scores[sym] at the end of the loop body of the score worker.
ScoreOf(sym, compensated) ==
    IF Fetched(sym).fails THEN FromInt(0 - NoScore)
    ELSE compute_score(Fetched(sym).rev, Fetched(sym).price, compensated).value

\* The dict scores of the score worker.
ScoresOf(symbols, compensated) ==
    [i \in DOMAIN symbols |-> << symbols[i], ScoreOf(symbols[i], compensated) >>]

\* A score that stands for a computed one: score > -9999.
IsScore(value) ==
    FGt(value, FromInt(0 - NoScore))

\* The suffix of a label for the sort key.
Suffix(g, sym) ==
    IF g.sort_var = "Value Divergence (default)"
    THEN LET value == GetOr(g.divergence_scores, sym, FromInt(0 - NoScore))
         IN  IF IsScore(value)
             THEN "  [VD: " \o SignedInteger(value) \o "]"
             ELSE "  [VD: N/A]"
    ELSE IF g.sort_var = "Market Cap"
    THEN "  [" \o fmt_inr(Get(g.stock_details, sym).marketCap) \o "]"
    ELSE ""

\* The key a symbol is sorted by (descending).
SortKey(g, sym) ==
    IF g.sort_var = "Value Divergence (default)"
    THEN GetOr(g.divergence_scores, sym, FromInt(0 - NoScore))
    ELSE IF g.sort_var = "Market Cap"
    THEN FromInt(Get(g.stock_details, sym).marketCap)
    ELSE FromInt(0)

\* The first key of a dict with the value, "" when there is none.
FirstKeyOf(d, v) ==
    LET at == { i \in DOMAIN d : d[i][2] = v }
    IN  IF at = {} THEN ""
        ELSE d[CHOOSE i \in at : \A j \in at : i <= j][1]

\* _apply_sort
_apply_sort(g) ==
    IF g.stock_details = << >> THEN g
    ELSE LET keys == [i \in DOMAIN g.stock_details |-> g.stock_details[i][1]]
             symbols == SortedDescending(keys,
                            [i \in DOMAIN keys |-> SortKey(g, keys[i])])
             entries == [i \in DOMAIN symbols |->
                            Label(Get(g.stock_details, symbols[i]).name,
                                  symbols[i], Suffix(g, symbols[i]))]
             new_map == [i \in DOMAIN symbols |-> << entries[i], symbols[i] >>]
             assigned == [g EXCEPT !.names_to_symbols = new_map]
             current == assigned.stock_var
             current_sym == GetOr(assigned.names_to_symbols, current, << >>)
         IN  [assigned EXCEPT
                       !.stock_combo = entries,
                       !.stock_var = IF current_sym # << >>
                                     THEN FirstKeyOf(new_map, current_sym)
                                     ELSE entries[1]]

\* _on_scores_computed, the callback of the score worker.
_on_scores_computed(g, scores) ==
    LET n == Cardinality({ i \in DOMAIN scores : IsScore(scores[i][2]) })
    IN  _apply_sort([g EXCEPT
                        !.divergence_scores = scores,
                        !.computing_scores = FALSE,
                        !.status = ToString(Len(g.stock_details))
                            \o " stocks loaded \\u2014 " \o ToString(n)
                            \o " value scores computed"])

\* _on_analyze: the analysis worker starts for the selected label.
_on_analyze(g) ==
    LET symbol == GetOr(g.names_to_symbols, g.stock_var, << >>)
        info == GetOr(g.stock_details, symbol, [name |-> Str(symbol), industry |-> "Unknown"])
        others == SelectSeq(SameIndustry(g, info.industry), LAMBDA s : s # symbol)
        peers == SortedDescending(others,
                     [i \in DOMAIN others |->
                         FromInt(Get(g.stock_details, others[i]).marketCap)])
    IN  IF symbol = << >> THEN g
        ELSE Start([g EXCEPT !.go_btn = "disabled",
                             !.status = "Analyzing " \o info.name \o "..."],
                   [kind |-> "analysis", symbol |-> symbol,
                    same_industry |-> SameIndustry(g, info.industry),
                    all_tickers |-> << symbol >> \o Prefix(peers, 5)])

\* _on_pie_stock_click
_on_pie_stock_click(g, symbol) ==
    LET label == FirstKeyOf(g.names_to_symbols, symbol)
    IN  IF symbol \in { g.names_to_symbols[i][2] : i \in DOMAIN g.names_to_symbols }
        THEN _on_analyze([g EXCEPT !.stock_var = label])
        ELSE g

\* _render_charts, the callback of the analysis worker: the charts and the
\* news of the symbol replace what the chart frame showed.
_render_charts(g, selected, same_industry, chart_tickers) ==
    LET keys == WedgeKeys(g, same_industry)
        name == GetOr(g.stock_details, selected, [name |-> Str(selected)]).name
    IN  [g EXCEPT !.charts = selected,
                  !.pie_wedge_keys = keys,
                  !.pie_level = IF keys # << >> THEN 2 ELSE @,
                  !.pie = [title |-> g.industry_var, data |-> << >>],
                  !.back_btn = TRUE,
                  !.go_btn = "normal",
                  !.status = name \o " \\u2014 " \o ToString(Len(chart_tickers) - 1)
                                 \o " peer(s) charted"]

\* ------------------------------------------------------------------------
\* The industry cache (load_industry_cache, save_industry_cache,
\* _load_industries)
\* ------------------------------------------------------------------------

\* Python's None.
None == << "None" >>

\* The seconds a cache is good for.
_CACHE_MAX_AGE == 7 * 24 * 3600

\* No file at _CACHE_FILE.
Missing == [kind |-> "missing"]

\* A regular, readable file whose text is the JSON document doc: an object
\* with its members, an array, or no JSON at all.
TextFile(doc) == [kind |-> "file", doc |-> doc]

\* The JSON values of the members: a number, a string, an object.
Number(n) == [type |-> "number", number |-> n]

String(s) == [type |-> "string", string |-> s]

Object(d) == [type |-> "object", items |-> d]

\* The document json.dump writes for {"timestamp": ts, "sectors": sectors}.
CacheDocument(ts, sectors) ==
    [type |-> "object",
     members |-> << <<"timestamp", Number(ts)>>, <<"sectors", Object(sectors)>> >>]

\* The result of a block that raised the exception.
Raises(exception) == [raised |-> exception, value |-> None]

\* The result of a block that returned the value.
Returns(value) == [raised |-> "", value |-> value]

\* The try block of load_industry_cache: open, json.load, the two get, the
\* comparison of the age.
ReadCache(file, now) ==
    IF file.kind # "file" THEN Raises("OSError")
    ELSE IF file.doc.type = "invalid" THEN Raises("JSONDecodeError")
    ELSE IF file.doc.type # "object" THEN Raises("AttributeError")
    ELSE LET ts == GetOr(file.doc.members, "timestamp", Number(0))
         IN  IF ts.type # "number" THEN Raises("TypeError")
             ELSE IF now - ts.number > _CACHE_MAX_AGE THEN Returns(None)
             ELSE Returns(GetOr(file.doc.members, "sectors", Object(<< >>)).items)

\* load_industry_cache with a handler for malformed JSON only.
load_industry_cache_DecodeErrorOnly(file, now) ==
    IF file.kind = "missing" THEN Returns(None)
    ELSE LET try == ReadCache(file, now)
         IN  IF try.raised = "JSONDecodeError" THEN Returns(None) ELSE try

\* load_industry_cache()
load_industry_cache(file, now) ==
    IF file.kind = "missing" THEN Returns(None)
    ELSE LET try == ReadCache(file, now)
         IN  IF try.raised # "" THEN Returns(None) ELSE try

\* The file after save_industry_cache(sectors_dict): written, left as it
\* was when open fails, cut short when the write fails.
save_industry_cache(file, sectors_dict, now, write) ==
    IF write = "written" THEN TextFile(CacheDocument(now, sectors_dict))
    ELSE IF write = "open fails" THEN file
    ELSE TextFile([type |-> "invalid"])

\* if cached: the truth value of what load_industry_cache returned.
Truthy(value) == value # None /\ value # << >>

\* The worker of _load_industries: the file it leaves, the exception that
\* ends the thread, whether build_industry_map was called, the callback it
\* schedules.
work(file, now, build, write) ==
    LET cached == load_industry_cache(file, now)
    IN  IF cached.raised # ""
        THEN [file |-> file, raised |-> cached.raised, rebuilt |-> FALSE,
              callback |-> ""]
        ELSE IF Truthy(cached.value)
        THEN [file |-> file, raised |-> "", rebuilt |-> FALSE,
              callback |-> "_on_industries_loaded", imap |-> cached.value]
        ELSE IF build.raised # ""
        THEN [file |-> file, raised |-> "", rebuilt |-> TRUE,
              callback |-> "_status_var.set"]
        ELSE [file |-> save_industry_cache(file, build.value, now, write),
              raised |-> "", rebuilt |-> TRUE,
              callback |-> "_on_industries_loaded", imap |-> build.value]

\* The clock of a first start: time.time().
Now0 == 1700000000

\* The disk and the clock before the program has run.
Disk0 == [file |-> Missing, now |-> Now0, ticks |-> 0, starts |-> 0,
          last |-> << >>]

\* ------------------------------------------------------------------------
\* The state machine: a caller assembles a headline and classifies it
\* ------------------------------------------------------------------------

\* The pieces headlines are assembled from.
Tokens ==
    { <<"n","o"," ">>,                                      \* "no "
      <<"w","i","t","h","o","u","t"," ">>,                  \* "without "
      <<"n","e","t"," ","l","o","s","s">>,                  \* "net loss"
      <<"r","e","c","o","r","d"," ","p","r","o","f","i","t">>, \* "record profit"
      <<"n","e","t"," ","p","r","o","f","i","t"," ","d","e","c","l","i","n","e","d">>,
                                                            \* "net profit declined"
      <<"G","r","o","w","t","h">>,                          \* "Growth"
      <<"d","e","b","t">>,                                  \* "debt"
      <<" ","r","e","p","o","r","t","e","d">>,              \* " reported"
      <<" ">>,                                              \* " "
      <<"_","1">> }                                         \* "_1"

VARIABLES
    pc,          \* "input": the headline is being assembled; "done": classified
    ntok,        \* the number of tokens of the headline
    none,        \* the argument is None instead of a string
    text,        \* the argument of classify_sentiment
    bull_score,  \* the locals of classify_sentiment at its return
    bear_score,
    bull_hits,
    bear_hits,
    sentiment,   \* the label returned
    keywords,    \* the matched terms returned
    ret_line     \* the line of the return statement taken, 0 before the call

VARIABLES
    note         \* the impact note built for the headline

VARIABLES
    lexicon,     \* the module-level lists classify_sentiment reads
    workers,     \* per worker thread: its position, its headline, its calls
    frames,      \* the locals of the call of classify_sentiment in progress
    returned     \* the (argument, result) pairs of the calls that returned

VARIABLES
    rev_yearly,  \* the dict year -> Total Revenue of the symbol
    price_yearly,\* the dict year -> mean closing price of the symbol
    score,       \* what _compute_divergence_scores stored for the symbol
    chart        \* the locals of the third row of _render_charts at its end

\* The state of concurrent calls of classify_sentiment.
threadvars == << lexicon, workers, frames, returned >>

\* The state of the divergence of revenue and price.
divvars == << rev_yearly, price_yearly, score, chart >>

VARIABLES
    api,         \* the news endpoint: its requests served, its responses sent
    gui,         \* the stock picker window: its attributes, widgets, workers
    disk         \* the cache file of the industries, the clock, the starts

\* The state of the components outside the analysis of a headline and of a
\* symbol.
restvars == << api, gui, disk >>

\* The state of the other components.
extvars == << note, threadvars, divvars, restvars >>

vars == << pc, ntok, none, text, bull_score, bear_score, bull_hits, bear_hits,
           sentiment, keywords, ret_line, extvars >>

\* No impact note has been built.
NoNote == [line |-> 0, head |-> "", cited |-> <<>>, tail |-> ""]

\* The worker threads that classify headlines.
Threads == {"t1", "t2"}

\* The module-level lists as the module creates them at import (lines
\* 140-192); a compiled pattern is held as the word it is compiled from.
Lexicon0 ==
    [ BULLISH_PHRASES |-> BULLISH_PHRASES,
      BEARISH_PHRASES |-> BEARISH_PHRASES,
      BULLISH_WORDS |-> BULLISH_WORDS,
      BEARISH_WORDS |-> BEARISH_WORDS,
      _BULL_WORD_PATTERNS |-> BULLISH_WORDS,
      _BEAR_WORD_PATTERNS |-> BEARISH_WORDS,
      _NEGATION_PREFIXES |-> _NEGATION_PREFIXES ]

\* A worker that is not in a call.
IdleWorker == [at |-> 0, title |-> <<>>, calls |-> 0]

\* The locals of a call before its first statement.
NoFrame == [text |-> <<>>, text_lower |-> <<>>, locals |-> InitialLocals]

Init ==
    /\ pc = "input"
    /\ ntok = 0
    /\ none = FALSE
    /\ text = <<>>
    /\ bull_score = 0
    /\ bear_score = 0
    /\ bull_hits = <<>>
    /\ bear_hits = <<>>
    /\ sentiment = "none"
    /\ keywords = <<>>
    /\ ret_line = 0
    /\ note = NoNote
    /\ lexicon = Lexicon0
    /\ workers = [t \in Threads |-> IdleWorker]
    /\ frames = [t \in Threads |-> NoFrame]
    /\ returned = {}
    /\ rev_yearly = << >>
    /\ price_yearly = << >>
    /\ score = NoResult
    /\ chart = NoChart
    /\ api = NoRequests
    /\ gui = Window0
    /\ disk = Disk0

\* The caller extends the headline by one token.
Type(tok) ==
    /\ pc = "input"
    /\ ntok < MaxTokens
    /\ text' = text \o tok
    /\ ntok' = ntok + 1
    /\ UNCHANGED << pc, none, bull_score, bear_score, bull_hits, bear_hits,
                    sentiment, keywords, ret_line >>
    /\ UNCHANGED extvars

\* The call classify_sentiment(arg) and its return.
Call(n, arg) ==
    \E r \in { classify_sentiment(n, arg) } :
        /\ bull_score' = r.locals.bull_score
        /\ bear_score' = r.locals.bear_score
        /\ bull_hits' = r.locals.bull_hits
        /\ bear_hits' = r.locals.bear_hits
        /\ sentiment' = r.ret.sentiment
        /\ keywords' = r.ret.keywords
        /\ ret_line' = r.ret.line
        /\ pc' = "done"

\* classify_sentiment(text) on the assembled headline.
Classify ==
    /\ pc = "input"
    /\ none' = FALSE
    /\ Call(FALSE, text)
    /\ UNCHANGED << ntok, text >>
    /\ UNCHANGED extvars

\* classify_sentiment(None): a headline that is missing.
ClassifyNone ==
    /\ pc = "input"
    /\ ntok = 0
    /\ none' = TRUE
    /\ Call(TRUE, text)
    /\ UNCHANGED << ntok, text >>
    /\ UNCHANGED extvars

Next ==
    \/ \E tok \in Tokens : Type(tok)
    \/ Classify
    \/ ClassifyNone

Spec == Init /\ [][Next]_vars

\* build_impact_note(sentiment, kw_hits, title) on the classifier's result.
ImpactNote ==
    /\ pc = "done"
    /\ note' = build_impact_note(sentiment, keywords, text)
    /\ pc' = "noted"
    /\ UNCHANGED << ntok, none, text, bull_score, bear_score, bull_hits,
                    bear_hits, sentiment, keywords, ret_line >>
    /\ UNCHANGED << threadvars, divvars, restvars >>

\* The news loop of the analysis: each headline is classified and its impact
\* note is built from the result.
AnalyzeNext ==
    \/ Next
    \/ ImpactNote

AnalyzeSpec == Init /\ [][AnalyzeNext]_vars

\* A headline of the wider alphabet is built from at most MaxWide pieces.
MaxWide == 3

\* Pieces of headlines with white space and with characters outside ASCII:
\* the rupee sign (not a word character), é and É (word characters; É has
\* the lower case é).
WideTokens ==
    { <<" ">>,                                              \* " "
      <<"\t">>,                                             \* a tab
      <<"₹">>,                                              \* "₹"
      <<"é">>,                                              \* "é"
      <<"É">>,                                              \* "É"
      <<"n","o"," ">>,                                      \* "no "
      <<"l","o","s","s">>,                                  \* "loss"
      <<"r","e","c","o","r","d"," ","p","r","o","f","i","t">> } \* "record profit"

\* The caller extends the headline by one piece of the wider alphabet.
TypeWide(tok) ==
    /\ pc = "input"
    /\ ntok < MaxWide
    /\ text' = text \o tok
    /\ ntok' = ntok + 1
    /\ UNCHANGED << pc, none, bull_score, bear_score, bull_hits, bear_hits,
                    sentiment, keywords, ret_line >>
    /\ UNCHANGED extvars

WideNext ==
    \/ \E tok \in WideTokens : TypeWide(tok)
    \/ Classify

\* Headlines over the wider alphabet, classified.
WideSpec == Init /\ [][WideNext]_vars


\* ------------------------------------------------------------------------
\* Concurrent calls of classify_sentiment from worker threads
\* ------------------------------------------------------------------------

\* Each worker makes at most MaxCalls calls.
MaxCalls == 2

\* The headlines the workers classify.
Headlines ==
    { <<>>,                                                  \* ""
      <<"n","o"," ","n","e","t"," ","l","o","s","s"," ","r","e","p","o","r","t","e","d">>,
                                                             \* "no net loss reported"
      <<"r","e","c","o","r","d"," ","p","r","o","f","i","t">>,  \* "record profit"
      <<"D","e","b","t"," ","w","i","t","h","o","u","t"," ","g","r","o","w","t","h">> }
                                                             \* "Debt without growth"

\* The variables of the single-caller state machine.
classvars == << pc, ntok, none, text, bull_score, bear_score, bull_hits,
                bear_hits, sentiment, keywords, ret_line >>

\* One frame for all calls: the locals of classify_sentiment as shared,
\* module-level variables.
FrameOf_Shared(t) == CHOOSE u \in Threads : TRUE

\* The frame of the call a worker is in: every call of a function has locals
\* of its own.
FrameOf(t) == t

\* The negation check of lines 211-217 with the marker list read from the
\* module state.
NegatedBy(prefixes, text_lower, phrase) ==
    LET idx == find(text_lower, phrase)
        before == Slice(text_lower, Max(0, idx - NegationWindow), idx)
    IN  \E n \in DOMAIN prefixes : Contains(before, prefixes[n])

\* One iteration of a phrase loop (lines 209-223 for the bullish list,
\* 226-239 for the bearish one).
PhraseStepOf(native, prefixes, st, text_lower, phrase) ==
    IF ~Contains(text_lower, phrase) THEN st
    ELSE IF native = "bullish"
    THEN IF NegatedBy(prefixes, text_lower, phrase)
         THEN [st EXCEPT !.bear_score = @ + PhraseWeight,
                         !.bear_hits = Append(@, NotPhrase(phrase))]
         ELSE [st EXCEPT !.bull_score = @ + PhraseWeight,
                         !.bull_hits = Append(@, phrase)]
    ELSE IF NegatedBy(prefixes, text_lower, phrase)
         THEN [st EXCEPT !.bull_score = @ + PhraseWeight,
                         !.bull_hits = Append(@, NoPhrase(phrase))]
         ELSE [st EXCEPT !.bear_score = @ + PhraseWeight,
                         !.bear_hits = Append(@, phrase)]

RECURSIVE PhraseLoop(_, _, _, _, _, _)
\* for phrase in <list>, the list and the markers read from the module state.
PhraseLoop(native, phrases, prefixes, st, text_lower, i) ==
    IF i > Len(phrases) THEN st
    ELSE LET next == PhraseStepOf(native, prefixes, st, text_lower, phrases[i])
         IN  IF Evaluated(next)
             THEN PhraseLoop(native, phrases, prefixes, next, text_lower, i + 1)
             ELSE next

RECURSIVE WordLoop(_, _, _, _, _)
\* for word, pattern in <patterns>, the patterns read from the module state.
WordLoop(native, patterns, st, text_arg, i) ==
    IF i > Len(patterns) THEN st
    ELSE LET next == IF native = "bullish"
                     THEN BullishWordStep(st, text_arg, patterns[i])
                     ELSE BearishWordStep(st, text_arg, patterns[i])
         IN  IF Evaluated(next)
             THEN WordLoop(native, patterns, next, text_arg, i + 1)
             ELSE next

\* A call that has returned: its argument and its result.
Returned(arg, label, terms) == [arg |-> arg, sentiment |-> label, keywords |-> terms]

\* A worker calls classify_sentiment(title): lines 197-205.  The early return
\* of line 198 ends the call at once.
Enter(t, h) ==
    /\ workers[t].at = 0
    /\ workers[t].calls < MaxCalls
    /\ IF Falsy(FALSE, h)
       THEN /\ returned' = returned \cup { Returned(h, "neutral", <<>>) }
            /\ workers' = [workers EXCEPT ![t].calls = @ + 1]
            /\ UNCHANGED frames
       ELSE /\ frames' = [frames EXCEPT ![FrameOf(t)] =
                             [text |-> h, text_lower |-> lower(h),
                              locals |-> InitialLocals]]
            /\ workers' = [workers EXCEPT ![t].at = 208, ![t].title = h]
            /\ UNCHANGED returned
    /\ UNCHANGED << lexicon, classvars, note, divvars, restvars >>

\* The loop over BULLISH_PHRASES, lines 208-223.
BullishPhrases(t) ==
    /\ workers[t].at = 208
    /\ \E f \in { frames[FrameOf(t)] } :
          frames' = [frames EXCEPT ![FrameOf(t)].locals =
                        PhraseLoop("bullish", lexicon.BULLISH_PHRASES,
                                   lexicon._NEGATION_PREFIXES, f.locals,
                                   f.text_lower, 1)]
    /\ workers' = [workers EXCEPT ![t].at = 225]
    /\ UNCHANGED << lexicon, returned, classvars, note, divvars, restvars >>

\* The loop over BEARISH_PHRASES, lines 225-239.
BearishPhrases(t) ==
    /\ workers[t].at = 225
    /\ \E f \in { frames[FrameOf(t)] } :
          frames' = [frames EXCEPT ![FrameOf(t)].locals =
                        PhraseLoop("bearish", lexicon.BEARISH_PHRASES,
                                   lexicon._NEGATION_PREFIXES, f.locals,
                                   f.text_lower, 1)]
    /\ workers' = [workers EXCEPT ![t].at = 242]
    /\ UNCHANGED << lexicon, returned, classvars, note, divvars, restvars >>

\* The loop over _BULL_WORD_PATTERNS, lines 242-246.
BullishWords(t) ==
    /\ workers[t].at = 242
    /\ \E f \in { frames[FrameOf(t)] } :
          frames' = [frames EXCEPT ![FrameOf(t)].locals =
                        WordLoop("bullish", lexicon._BULL_WORD_PATTERNS,
                                 f.locals, f.text, 1)]
    /\ workers' = [workers EXCEPT ![t].at = 248]
    /\ UNCHANGED << lexicon, returned, classvars, note, divvars, restvars >>

\* The loop over _BEAR_WORD_PATTERNS, lines 248-252.
BearishWords(t) ==
    /\ workers[t].at = 248
    /\ \E f \in { frames[FrameOf(t)] } :
          frames' = [frames EXCEPT ![FrameOf(t)].locals =
                        WordLoop("bearish", lexicon._BEAR_WORD_PATTERNS,
                                 f.locals, f.text, 1)]
    /\ workers' = [workers EXCEPT ![t].at = 254]
    /\ UNCHANGED << lexicon, returned, classvars, note, divvars, restvars >>

\* The decision and the return, lines 254-264: the caller receives the result
\* for the headline it passed.
Return(t) ==
    /\ workers[t].at = 254
    /\ \E r \in { Decide(frames[FrameOf(t)].locals) } :
          returned' = returned \cup
                        { Returned(workers[t].title, r.sentiment, r.keywords) }
    /\ workers' = [workers EXCEPT ![t].at = 0, ![t].title = <<>>,
                                  ![t].calls = @ + 1]
    /\ UNCHANGED << lexicon, frames, classvars, note, divvars, restvars >>

ThreadNext ==
    \E t \in Threads :
        \/ \E h \in Headlines : Enter(t, h)
        \/ BullishPhrases(t)
        \/ BearishPhrases(t)
        \/ BullishWords(t)
        \/ BearishWords(t)
        \/ Return(t)

\* The workers' calls of classify_sentiment, interleaved loop by loop.
ThreadSpec == Init /\ [][ThreadNext]_vars


\* ------------------------------------------------------------------------
\* A caller of build_impact_note with a label and a list of terms of its own
\* ------------------------------------------------------------------------

\* The most terms a caller passes.
MaxTerms == 5

\* The terms a caller passes.
Terms ==
    { <<"n","e","t"," ","l","o","s","s">>,                          \* "net loss"
      <<"a","l","l","-","t","i","m","e"," ","h","i","g","h">>,      \* "all-time high"
      <<"q","3"," ","g","R","O","W","T","H">>,                      \* "q3 gROWTH"
      <<>> }                                                        \* ""

\* The labels a caller passes.
Labels == { "bullish", "bearish", "neutral", "Bullish", "none", "" }

\* The caller adds a term to the list.
AddTerm(term) ==
    /\ pc = "input"
    /\ Len(keywords) < MaxTerms
    /\ keywords' = Append(keywords, term)
    /\ UNCHANGED << pc, ntok, none, text, bull_score, bear_score, bull_hits,
                    bear_hits, sentiment, ret_line >>
    /\ UNCHANGED extvars

\* The call build_impact_note(label, keywords, title) and its return.
BuildNote(label) ==
    /\ pc = "input"
    /\ sentiment' = label
    /\ note' = build_impact_note(label, keywords, text)
    /\ pc' = "noted"
    /\ UNCHANGED << ntok, none, text, bull_score, bear_score, bull_hits,
                    bear_hits, keywords, ret_line >>
    /\ UNCHANGED << threadvars, divvars, restvars >>

NoteNext ==
    \/ \E term \in Terms : AddTerm(term)
    \/ \E label \in Labels : BuildNote(label)

NoteSpec == Init /\ [][NoteNext]_vars

\* The titles a caller passes.
Titles ==
    { <<>>,                                                         \* ""
      <<"n","e","t"," ","l","o","s","s">>,                          \* "net loss"
      <<"r","e","c","o","r","d"," ","p","r","o","f","i","t">> }     \* "record profit"

\* The caller chooses the title of the article.
SetTitle(t) ==
    /\ pc = "input"
    /\ text = << >>
    /\ t # << >>
    /\ text' = t
    /\ UNCHANGED << pc, ntok, none, bull_score, bear_score, bull_hits,
                    bear_hits, sentiment, keywords, ret_line >>
    /\ UNCHANGED extvars

\* A caller of build_impact_note that also chooses the title.
TitleNext ==
    \/ NoteNext
    \/ \E t \in Titles : SetTitle(t)

TitleSpec == Init /\ [][TitleNext]_vars

\* ------------------------------------------------------------------------
\* The analysis of one symbol: its yearly revenue and its yearly mean price
\* are collected, then scored for the listing or drawn for the selection
\* ------------------------------------------------------------------------

\* The fiscal and calendar years of the data.
Years == {2021, 2022, 2023}

\* Total Revenue of a year.
Revenues == {0, 100, 110, 150}

\* The mean closing price of a year.
Prices == {0, 50, 55}

\* The dicts rev_yearly can be: an item per column of the statement that has
\* a year and a Total Revenue, in the order the data source gives the columns.
RevenueSeries == Dicts(Years, Revenues)

\* The dicts price_yearly can be: groupby yields the years in ascending order.
PriceSeries ==
    { d \in Dicts(Years, Prices) :
        \A i, j \in DOMAIN d : i < j => d[i][1] < d[j][1] }

\* The two series of the symbol are fetched and their dicts are built (lines
\* 1369-1389 of _compute_divergence_scores, 1562-1591 of _on_analyze).
Load(rev, price) ==
    /\ pc = "input"
    /\ rev_yearly' = rev
    /\ price_yearly' = price
    /\ pc' = "loaded"
    /\ UNCHANGED << ntok, none, text, bull_score, bear_score, bull_hits,
                    bear_hits, sentiment, keywords, ret_line >>
    /\ UNCHANGED << score, chart, note, threadvars, restvars >>

\* The body of the loop of _compute_divergence_scores for the symbol.
ComputeScore ==
    /\ pc = "loaded"
    /\ \E compensated \in BOOLEAN :
          \E r \in { compute_score(rev_yearly, price_yearly, compensated) } :
              score' = r
    /\ pc' = "scored"
    /\ UNCHANGED << ntok, none, text, bull_score, bear_score, bull_hits,
                    bear_hits, sentiment, keywords, ret_line >>
    /\ UNCHANGED << rev_yearly, price_yearly, chart, note, threadvars, restvars >>

\* The third row of _render_charts for the symbol.
RenderCharts ==
    /\ pc = "loaded"
    /\ \E c \in { render_charts(rev_yearly, price_yearly) } : chart' = c
    /\ pc' = "rendered"
    /\ UNCHANGED << ntok, none, text, bull_score, bear_score, bull_hits,
                    bear_hits, sentiment, keywords, ret_line >>
    /\ UNCHANGED << rev_yearly, price_yearly, score, note, threadvars, restvars >>

DivNext ==
    \/ pc = "input" /\ \E rev \in RevenueSeries, price \in PriceSeries : Load(rev, price)
    \/ ComputeScore
    \/ RenderCharts

DivSpec == Init /\ [][DivNext]_vars

\* ------------------------------------------------------------------------
\* The news endpoint serves requests
\* ------------------------------------------------------------------------

\* The most requests the endpoint serves.
MaxRequests == 2

\* The query strings of the requests.
Queries ==
    { << >>,                                           \* /api/news
      << <<"stock", "">> >>,                           \* ?stock=
      << <<"Stock", "TCS">> >>,                        \* ?Stock=TCS
      << <<"q", "TCS">>, <<"stock", "">> >>,           \* ?q=TCS&stock=
      << <<"stock", "TCS">> >>,                        \* ?stock=TCS
      << <<"stock", "">>, <<"stock", " ">> >> }        \* ?stock=&stock=%20

\* The items of the feeds.
FeedItems ==
    { [title |-> { "TCS beats estimates" }, source |-> { "Mint" },
       pubDate |-> { "Fri, 06 Nov 2026 10:00:00 GMT" }],
      [title |-> {}, source |-> {}, pubDate |-> {}],
      [title |-> { "TCS" }, source |-> {}, pubDate |-> { "soon" }] }

\* What fetching the feed can do.
Feeds ==
    { [fails |-> f, items |-> << >>] : f \in { "", "urlopen", "decode", "fromstring" } }
    \cup { [fails |-> "", items |-> << i >>] : i \in FeedItems }

\* The feed of a request that fetches none.
NoFeed == [fails |-> "", items |-> << >>]

\* The endpoint serves GET /api/news with a query.
DoGet(query, feed) ==
    /\ Len(api) < MaxRequests
    /\ \E r \in { do_GET(query, feed) } :
          api' = Append(api, [method |-> "GET", query |-> query, feed |-> feed,
                              fetches |-> r.fetches, sent |-> r.sent])
    /\ UNCHANGED << classvars, note, threadvars, divvars, gui, disk >>

\* The endpoint serves OPTIONS /api/news.
DoOptions ==
    /\ Len(api) < MaxRequests
    /\ api' = Append(api, [method |-> "OPTIONS", query |-> << >>, feed |-> NoFeed,
                           fetches |-> 0, sent |-> << do_OPTIONS >>])
    /\ UNCHANGED << classvars, note, threadvars, divvars, gui, disk >>

ApiNext ==
    \/ \E query \in Queries :
          \E feed \in IF StockOf(query) = "" THEN { NoFeed } ELSE Feeds :
              DoGet(query, feed)
    \/ DoOptions

ApiSpec == Init /\ [][ApiNext]_vars

\* ------------------------------------------------------------------------
\* The window handles the user's actions and the callbacks of its workers
\* ------------------------------------------------------------------------

\* The most actions of the user.
MaxEvents == 4

\* The workers in flight of a kind.
InFlight(kind) == { w \in gui.in_flight : w.work.kind = kind }

\* The window after the callback of worker w has run as g.
Delivered(g, w) == [g EXCEPT !.in_flight = @ \ { w }]

\* The window after an action of the user was handled as g.
Handled(g) == [g EXCEPT !.events = @ + 1]

\* The industries worker delivers the map: _on_industries_loaded runs.
OnIndustriesLoaded ==
    /\ \E w \in InFlight("industries") :
          gui' = Delivered(_on_industries_loaded(gui, IndustryMap), w)
    /\ UNCHANGED << classvars, note, threadvars, divvars, api, disk >>

\* The user picks a sector of the sector dropdown.
OnSectorChange(sector) ==
    /\ gui.events < MaxEvents
    /\ sector \in Keys(gui.industry_map)
    /\ gui' = Handled([_on_sector_change([gui EXCEPT !.sector_var = sector])
                          EXCEPT !.changed_at = gui.started])
    /\ UNCHANGED << classvars, note, threadvars, divvars, api, disk >>

\* The sector worker delivers the overview: _on_sector_data_loaded runs.
OnSectorDataLoaded ==
    /\ \E w \in InFlight("sector") :
          gui' = Delivered(_on_sector_data_loaded(gui, w.work.sector,
                                                  Overview(w.work.sector)), w)
    /\ UNCHANGED << classvars, note, threadvars, divvars, api, disk >>

\* The user presses the back button of the chart frame.
OnBackToSector ==
    /\ gui.events < MaxEvents
    /\ gui.back_btn
    /\ gui' = Handled(_on_back_to_sector(gui))
    /\ UNCHANGED << classvars, note, threadvars, divvars, api, disk >>

\* The user presses Load Stocks.
OnLoadStocks ==
    /\ gui.events < MaxEvents
    /\ gui.load_btn = "normal"
    /\ gui' = Handled(_on_load_stocks(gui))
    /\ UNCHANGED << classvars, note, threadvars, divvars, api, disk >>

\* The screener worker delivers the quotes: _on_stocks_loaded runs.
OnStocksLoaded ==
    /\ \E w \in InFlight("screen") :
          gui' = Delivered([_on_stocks_loaded(gui, Quotes(w.work.industry),
                                Len(Quotes(w.work.industry)), w.work.industry)
                               EXCEPT !.details_by = w.id], w)
    /\ UNCHANGED << classvars, note, threadvars, divvars, api, disk >>

\* The score worker delivers its scores: _on_scores_computed runs.
OnScoresComputed ==
    /\ \E w \in InFlight("scores"), compensated \in BOOLEAN :
          gui' = Delivered(_on_scores_computed(gui,
                               ScoresOf(w.work.symbols, compensated)), w)
    /\ UNCHANGED << classvars, note, threadvars, divvars, api, disk >>

\* The user picks a sort option.
OnSortChange(choice) ==
    /\ gui.events < MaxEvents
    /\ gui' = Handled(_apply_sort([gui EXCEPT !.sort_var = choice]))
    /\ UNCHANGED << classvars, note, threadvars, divvars, api, disk >>

\* The user picks a stock of the stock dropdown.
SelectStock ==
    /\ gui.events < MaxEvents
    /\ \E i \in DOMAIN gui.stock_combo :
          /\ gui.stock_var # gui.stock_combo[i]
          /\ gui' = Handled([gui EXCEPT !.stock_var = gui.stock_combo[i]])
    /\ UNCHANGED << classvars, note, threadvars, divvars, api, disk >>

\* The user presses Analyze.
OnAnalyze ==
    /\ gui.events < MaxEvents
    /\ gui.go_btn = "normal"
    /\ gui' = Handled(_on_analyze(gui))
    /\ UNCHANGED << classvars, note, threadvars, divvars, api, disk >>

\* The user clicks the wedge of a stock in the pie of the chart frame
\* (_on_pie_click).
OnPieStockClick ==
    /\ gui.events < MaxEvents
    /\ gui.pie_level = 2
    /\ \E i \in DOMAIN gui.pie_wedge_keys :
          gui' = Handled(_on_pie_stock_click(gui, gui.pie_wedge_keys[i]))
    /\ UNCHANGED << classvars, note, threadvars, divvars, api, disk >>

\* The analysis worker delivers its data: _render_charts runs.
OnChartsRendered ==
    /\ \E w \in InFlight("analysis") :
          gui' = Delivered(_render_charts(gui, w.work.symbol,
                               w.work.same_industry, w.work.all_tickers), w)
    /\ UNCHANGED << classvars, note, threadvars, divvars, api, disk >>

GuiNext ==
    \/ OnIndustriesLoaded
    \/ \E sector \in Keys(IndustryMap) : OnSectorChange(sector)
    \/ OnSectorDataLoaded
    \/ OnBackToSector
    \/ OnLoadStocks
    \/ OnStocksLoaded
    \/ OnScoresComputed
    \/ \E choice \in Range(SORT_OPTIONS) : OnSortChange(choice)
    \/ SelectStock
    \/ OnAnalyze
    \/ OnPieStockClick
    \/ OnChartsRendered

GuiSpec == Init /\ [][GuiNext]_vars

\* ------------------------------------------------------------------------
\* The program is started over time and loads its industries
\* ------------------------------------------------------------------------

\* The most times the clock is advanced.
MaxTicks == 3

\* The most starts of the program.
MaxStarts == 2

\* The seconds the clock is advanced by.
Periods == { 1, _CACHE_MAX_AGE - 1 }

\* What build_industry_map gives: the map, no sector at all, an exception.
Builds == { Returns(IndustryMap), Returns(<< >>), Raises("Exception") }

\* What writing the cache file can do.
Writes == { "written", "open fails", "write fails" }

\* Files that the program has not written: a directory (open fails), text
\* that is no JSON, an array, objects without the one or the other member,
\* an object whose timestamp is a string.
OtherFiles ==
    { [kind |-> "directory"],
      TextFile([type |-> "invalid"]),
      TextFile([type |-> "array"]),
      TextFile([type |-> "object", members |-> << >>]),
      TextFile([type |-> "object", members |-> << <<"timestamp", Number(Now0)>> >>]),
      TextFile([type |-> "object", members |-> << <<"sectors", Object(IndustryMap)>> >>]),
      TextFile([type |-> "object",
                members |-> << <<"timestamp", String("now")>>,
                               <<"sectors", Object(IndustryMap)>> >>]) }

\* Time passes.
Tick(seconds) ==
    /\ disk.ticks < MaxTicks
    /\ disk.starts < MaxStarts
    /\ disk' = [disk EXCEPT !.now = @ + seconds, !.ticks = @ + 1]
    /\ UNCHANGED << classvars, note, threadvars, divvars, api, gui >>

\* Something else than the program replaces or removes the cache file.
Replace ==
    /\ disk.starts < MaxStarts
    /\ \E file \in (OtherFiles \cup { Missing }) \ { disk.file } :
          disk' = [disk EXCEPT !.file = file]
    /\ UNCHANGED << classvars, note, threadvars, divvars, api, gui >>

\* The program starts: the worker of _load_industries runs.
LoadIndustries(build, write) ==
    /\ disk.starts < MaxStarts
    /\ \E r \in { work(disk.file, disk.now, build, write) } :
          disk' = [disk EXCEPT
                     !.file = r.file,
                     !.starts = @ + 1,
                     !.last = [r EXCEPT !.file = disk.file]
                                 @@ [at |-> disk.now, left |-> r.file]]
    /\ UNCHANGED << classvars, note, threadvars, divvars, api, gui >>

CacheNext ==
    \/ \E seconds \in Periods : Tick(seconds)
    \/ Replace
    \/ \E build \in Builds, write \in Writes : LoadIndustries(build, write)

CacheSpec == Init /\ [][CacheNext]_vars

\* ------------------------------------------------------------------------
\* Vocabulary of the properties
\* ------------------------------------------------------------------------

\* classify_sentiment has returned.
Done == pc = "done"

\* classify_sentiment has returned after scanning the lexicon.
Scanned == pc = "done" /\ ret_line # 198

AllPhrases == Range(BULLISH_PHRASES) \cup Range(BEARISH_PHRASES)

AllWords == Range(BULLISH_WORDS) \cup Range(BEARISH_WORDS)

\* The lexicon phrases that occur in the lower-cased headline.
PhrasesPresent(t) ==
    LET tl == lower(t)
    IN  { p \in AllPhrases : Contains(tl, p) }

\* w occurs free-standing in t, in any case: at some offset of tl, the
\* lower-cased t, the characters of w follow, with no word character
\* directly before or after them.
FreeStandingIn(w, t, tl) ==
    \E i \in Occurrences(tl, w) :
        /\ i = 0 \/ ~IsWordChar(t[i])
        /\ i + Len(w) = Len(t) \/ ~IsWordChar(t[i + Len(w) + 1])

\* The lexicon single words of the list ws that the headline t matches.
WordsMatched(ws, t) ==
    LET tl == lower(t)
    IN  { w \in Range(ws) : FreeStandingIn(w, t, tl) }

\* A matched term that records a phrase (every phrase holds a space, no
\* single word does).
IsPhraseTerm(term) == \E i \in DOMAIN term : term[i] = " "

\* The number of phrase terms of a hit list.
PhraseTerms(hits) == Cardinality({ i \in DOMAIN hits : IsPhraseTerm(hits[i]) })

NoDuplicates(lst) == \A i, j \in DOMAIN lst : i # j => lst[i] # lst[j]

\* No single-word term precedes a phrase term.
PhrasesFirst(lst) ==
    \A i, j \in DOMAIN lst : (i < j /\ IsPhraseTerm(lst[j])) => IsPhraseTerm(lst[i])

\* ------------------------------------------------------------------------
\* C1
\* ------------------------------------------------------------------------

\* The label the decision rule gives to the tallies bull and bear.
RuleLabel(bull, bear) ==
    IF bull - bear >= 2 THEN "bullish"
    ELSE IF bull - bear <= -2 THEN "bearish"
    ELSE IF bull > 0 /\ bear = 0 THEN "bullish"
    ELSE IF bear > 0 /\ bull = 0 THEN "bearish"
    ELSE "neutral"

\* C1: the label of every scanned headline is decided on the final tallies
\* in the order diff >= 2 bullish, diff <= -2 bearish, bull > 0 and bear = 0
\* bullish, bear > 0 and bull = 0 bearish, otherwise neutral; and a headline
\* that matches exactly one bullish single word, no phrase and no bearish
\* word has bull = 1, bear = 0, the label bullish and that word as its only
\* matched term.
C1_DecisionOrder ==
    Scanned =>
        LET bulls == WordsMatched(BULLISH_WORDS, text)
            bears == WordsMatched(BEARISH_WORDS, text)
            phrases == PhrasesPresent(text)
        IN  /\ sentiment = RuleLabel(bull_score, bear_score)
            /\ \A w \in Range(BULLISH_WORDS) :
                  (bulls = {w} /\ bears = {} /\ phrases = {})
                  => /\ bull_score = 1
                     /\ bear_score = 0
                     /\ sentiment = "bullish"
                     /\ keywords = <<w>>

\* C1 witness: a headline with one bullish word and nothing else was labelled.
C1_Witness ==
    /\ Scanned
    /\ Cardinality(WordsMatched(BULLISH_WORDS, text)) = 1
    /\ WordsMatched(BEARISH_WORDS, text) = {}
    /\ PhrasesPresent(text) = {}
    /\ bull_score = 1
    /\ sentiment = "bullish"

\* ------------------------------------------------------------------------
\* C2
\* ------------------------------------------------------------------------

\* The phrase p is recorded exactly once, in exactly one of the two lists.
RecordedOnce(p, own, other, annotated) ==
    Cardinality({ i \in DOMAIN own : own[i] = p })
      + Cardinality({ i \in DOMAIN other : other[i] = annotated }) = 1

\* C2: every lexicon phrase that occurs in the lower-cased headline adds
\* exactly 2 to exactly one tally and every lexicon single word that matches
\* adds exactly 1 to the tally of its own polarity, each entry once however
\* often it occurs: bull + bear = 2 * (phrases present) + (words matched).
C2_TallyWeights ==
    Scanned =>
        LET bulls == WordsMatched(BULLISH_WORDS, text)
            bears == WordsMatched(BEARISH_WORDS, text)
            phrases == PhrasesPresent(text)
        IN  /\ bull_score + bear_score =
                  2 * Cardinality(phrases) + Cardinality(bulls) + Cardinality(bears)
            /\ bull_score = 2 * PhraseTerms(bull_hits) + Cardinality(bulls)
            /\ bear_score = 2 * PhraseTerms(bear_hits) + Cardinality(bears)
            /\ PhraseTerms(bull_hits) + PhraseTerms(bear_hits) = Cardinality(phrases)
            /\ \A p \in phrases :
                  IF p \in Range(BULLISH_PHRASES)
                  THEN RecordedOnce(p, bull_hits, bear_hits, <<"n","o","t"," ">> \o p)
                  ELSE RecordedOnce(p, bear_hits, bull_hits, <<"n","o"," ">> \o p)

\* C2 witness: a headline in which a phrase occurs twice, and a single word
\* matches, was scanned.
C2_Witness ==
    /\ Scanned
    /\ \E p \in PhrasesPresent(text) : Cardinality(Occurrences(lower(text), p)) >= 2
    /\ WordsMatched(BULLISH_WORDS, text) \cup WordsMatched(BEARISH_WORDS, text) # {}

\* ------------------------------------------------------------------------
\* C3
\* ------------------------------------------------------------------------

\* The offset of the first occurrence of the phrase p in the lower-cased
\* headline t.
FirstOccurrence(p, t) == SetMin(Occurrences(lower(t), p))

\* A negation marker lies entirely inside the (at most) 15 characters that
\* immediately precede the first occurrence of p.
MarkerInWindow(p, t) ==
    LET tl == lower(t)
        first == SetMin(Occurrences(tl, p))
    IN  \E n \in DOMAIN _NEGATION_PREFIXES :
            \E j \in Occurrences(tl, _NEGATION_PREFIXES[n]) :
                /\ j >= first - 15
                /\ j + Len(_NEGATION_PREFIXES[n]) <= first

\* The bullish (bearish) phrases present whose first occurrence is (is not)
\* negated.
PhrasesWith(ps, t, negated) ==
    { p \in Range(ps) \cap PhrasesPresent(t) : MarkerInWindow(p, t) = negated }

\* C3: a phrase found in the lower-cased headline is attributed to the
\* opposite polarity exactly when a negation marker lies entirely inside the
\* 15 characters before its first occurrence; a negated bullish phrase
\* scores +2 bearish and is recorded as "not <phrase>" in the bearish terms, a
\* negated bearish phrase scores +2 bullish and is recorded as "no <phrase>"
\* in the bullish terms; otherwise the phrase scores +2 for its own polarity
\* and is recorded unchanged.
C3_NegationWindow ==
    Scanned =>
        LET phrases == PhrasesPresent(text)
            negated == { p \in phrases : MarkerInWindow(p, text) }
            bullN == Range(BULLISH_PHRASES) \cap negated
            bullP == (Range(BULLISH_PHRASES) \cap phrases) \ negated
            bearN == Range(BEARISH_PHRASES) \cap negated
            bearP == (Range(BEARISH_PHRASES) \cap phrases) \ negated
        IN  /\ \A p \in bullN : /\ InList(<<"n","o","t"," ">> \o p, bear_hits)
                                /\ ~InList(p, bull_hits)
            /\ \A p \in bullP : /\ InList(p, bull_hits)
                                /\ ~InList(<<"n","o","t"," ">> \o p, bear_hits)
            /\ \A p \in bearN : /\ InList(<<"n","o"," ">> \o p, bull_hits)
                                /\ ~InList(p, bear_hits)
            /\ \A p \in bearP : /\ InList(p, bear_hits)
                                /\ ~InList(<<"n","o"," ">> \o p, bull_hits)
            /\ bull_score = 2 * Cardinality(bullP) + 2 * Cardinality(bearN)
                              + Cardinality(WordsMatched(BULLISH_WORDS, text))
            /\ bear_score = 2 * Cardinality(bearP) + 2 * Cardinality(bullN)
                              + Cardinality(WordsMatched(BEARISH_WORDS, text))

\* C3 witness: a phrase that occurs twice, negated at its first occurrence
\* only, was re-attributed.
C3_Witness ==
    /\ Scanned
    /\ \E p \in PhrasesPresent(text) :
          /\ Cardinality(Occurrences(lower(text), p)) >= 2
          /\ MarkerInWindow(p, text)
          /\ InList(<<"n","o"," ">> \o p, bull_hits)

\* A negation marker straddles the start of the window of a phrase: it begins
\* more than 15 characters before the phrase and ends inside the window.
C3_StraddleReached ==
    /\ Scanned
    /\ \E p \in PhrasesPresent(text) :
          /\ ~MarkerInWindow(p, text)
          /\ \E n \in DOMAIN _NEGATION_PREFIXES :
                \E j \in Occurrences(lower(text), _NEGATION_PREFIXES[n]) :
                    /\ j < FirstOccurrence(p, text) - 15
                    /\ j + Len(_NEGATION_PREFIXES[n]) > FirstOccurrence(p, text) - 15

\* ------------------------------------------------------------------------
\* C4
\* ------------------------------------------------------------------------

\* The headline "no net loss reported".
NoNetLossReported ==
    <<"n","o"," ","n","e","t"," ","l","o","s","s"," ","r","e","p","o","r","t","e","d">>

\* C4 as claimed: classify("no net loss reported") is bullish with the matched
\* terms ["no net loss"], bull = 2 and bear = 0.
C4_AsClaimed ==
    (Scanned /\ text = NoNetLossReported) =>
        /\ sentiment = "bullish"
        /\ keywords = << <<"n","o"," ","n","e","t"," ","l","o","s","s">> >>
        /\ bull_score = 2
        /\ bear_score = 0

\* C4 amended: classify("no net loss reported") is neutral with the matched
\* terms ["no net loss", "loss"]: the negated bearish phrase "net loss" gives
\* bull = 2 and the bearish single word "loss" inside it gives bear = 1, so
\* diff = +1.
C4_NoNetLossReported ==
    (Scanned /\ text = NoNetLossReported) =>
        /\ sentiment = "neutral"
        /\ keywords = << <<"n","o"," ","n","e","t"," ","l","o","s","s">>,
                         <<"l","o","s","s">> >>
        /\ bull_score = 2
        /\ bear_score = 1

\* C4 witness: "no net loss reported" was classified.
C4_Witness == Scanned /\ text = NoNetLossReported /\ ret_line = 264

\* ------------------------------------------------------------------------
\* C5
\* ------------------------------------------------------------------------

\* C5: negation markers never change the attribution of a single word: each
\* matching bullish word adds 1 to the bullish tally and is a bullish term,
\* each matching bearish word adds 1 to the bearish tally and is a bearish
\* term, with or without a negation marker before it and also inside a phrase
\* that was negated in phase 1.
C5_WordsNeverNegated ==
    Scanned =>
        LET bulls == WordsMatched(BULLISH_WORDS, text)
            bears == WordsMatched(BEARISH_WORDS, text)
        IN  /\ \A w \in bulls : InList(w, bull_hits) /\ ~InList(w, bear_hits)
            /\ \A w \in bears : InList(w, bear_hits) /\ ~InList(w, bull_hits)
            /\ \A i \in DOMAIN bull_hits :
                  IsPhraseTerm(bull_hits[i]) \/ bull_hits[i] \in bulls
            /\ \A i \in DOMAIN bear_hits :
                  IsPhraseTerm(bear_hits[i]) \/ bear_hits[i] \in bears
            /\ bull_score - 2 * PhraseTerms(bull_hits) = Cardinality(bulls)
            /\ bear_score - 2 * PhraseTerms(bear_hits) = Cardinality(bears)

\* C5 witness: a headline was scanned in which a bearish single word matches
\* inside a negated bearish phrase, a negation marker lying inside the 15
\* characters before the word too.
C5_Witness ==
    /\ Scanned
    /\ \E p \in PhrasesWith(BEARISH_PHRASES, text, TRUE) :
          \E w \in WordsMatched(BEARISH_WORDS, text) :
              /\ Occurrences(p, w) # {}
              /\ MarkerInWindow(w, text)

\* A bullish single word that matches directly after a negation marker was
\* scanned.
C5_MarkerBeforeWordReached ==
    /\ Scanned
    /\ \E w \in WordsMatched(BULLISH_WORDS, text) :
          \E n \in DOMAIN _NEGATION_PREFIXES :
              \E j \in Occurrences(lower(text), _NEGATION_PREFIXES[n]) :
                  j + Len(_NEGATION_PREFIXES[n]) = FirstOccurrence(w, text)

\* ------------------------------------------------------------------------
\* C6
\* ------------------------------------------------------------------------

\* Every occurrence of w in t, in any case (an occurrence in tl, the
\* lower-cased t), is directly adjacent on at least one side to a word
\* character.
GuardedIn(w, t, tl) ==
    \A i \in Occurrences(tl, w) :
        \/ i >= 1 /\ IsWordChar(t[i])
        \/ i + Len(w) < Len(t) /\ IsWordChar(t[i + Len(w) + 1])

\* The words of the list ws that are guarded in the headline t.
GuardedWords(ws, t) ==
    LET tl == lower(t)
    IN  { w \in Range(ws) : GuardedIn(w, t, tl) }

\* C6: a lexicon single word whose every occurrence is directly adjacent to a
\* letter, digit or underscore is not matched: it is no matched term and adds
\* nothing to a tally; the words that do count are those with an occurrence,
\* in any case, that no word character touches.
C6_WordBoundaryGuard ==
    Scanned =>
        /\ \A w \in GuardedWords(BULLISH_WORDS, text) \cup GuardedWords(BEARISH_WORDS, text) :
              /\ ~InList(w, keywords)
              /\ ~InList(w, bull_hits)
              /\ ~InList(w, bear_hits)
        /\ \A w \in Range(BULLISH_WORDS) \ GuardedWords(BULLISH_WORDS, text) :
              InList(w, bull_hits)
        /\ \A w \in Range(BEARISH_WORDS) \ GuardedWords(BEARISH_WORDS, text) :
              InList(w, bear_hits)
        /\ bull_score = 2 * PhraseTerms(bull_hits)
              + Cardinality(Range(BULLISH_WORDS) \ GuardedWords(BULLISH_WORDS, text))
        /\ bear_score = 2 * PhraseTerms(bear_hits)
              + Cardinality(Range(BEARISH_WORDS) \ GuardedWords(BEARISH_WORDS, text))

\* C6 witness: a headline was scanned in which a lexicon word occurs, written
\* with a capital, only next to word characters.
C6_Witness ==
    /\ Scanned
    /\ \E w \in GuardedWords(BULLISH_WORDS, text) :
          /\ Occurrences(lower(text), w) # {}
          /\ Occurrences(text, w) = {}

\* A lexicon word written with a capital was matched.
C6_CapitalMatched ==
    /\ Scanned
    /\ \E w \in Range(BULLISH_WORDS) \ GuardedWords(BULLISH_WORDS, text) :
          /\ Occurrences(text, w) = {}
          /\ InList(w, keywords)

\* ------------------------------------------------------------------------
\* C7
\* ------------------------------------------------------------------------

\* C7: when the final tallies are equal and positive the result is neutral
\* and its matched terms are the bullish-matched terms followed by the
\* bearish-matched terms; a neutral result has no matched term exactly when
\* both tallies are zero.
C7_TieIsNeutral ==
    Done =>
        /\ (bull_score = bear_score /\ bull_score > 0) =>
              /\ sentiment = "neutral"
              /\ keywords = bull_hits \o bear_hits
        /\ sentiment = "neutral" =>
              (keywords = <<>> <=> (bull_score = 0 /\ bear_score = 0))

\* C7 witness: a headline with equal positive tallies was classified.
C7_Witness ==
    /\ Scanned
    /\ bull_score = bear_score
    /\ bull_score > 0
    /\ bull_hits # <<>>
    /\ bear_hits # <<>>

\* ------------------------------------------------------------------------
\* C8
\* ------------------------------------------------------------------------

\* C8: for the empty string and for None, classify_sentiment returns
\* ("neutral", []) at its first return statement, before the lexicon is
\* scanned.
C8_EmptyInput ==
    (Done /\ (none \/ text = <<>>)) =>
        /\ sentiment = "neutral"
        /\ keywords = <<>>
        /\ ret_line = 198

\* C8 witness: classify_sentiment(None) has returned.
C8_Witness == Done /\ none /\ sentiment = "neutral"

\* classify_sentiment("") has returned.
C8_EmptyStringReached == Done /\ ~none /\ text = <<>> /\ sentiment = "neutral"

\* ------------------------------------------------------------------------
\* C9
\* ------------------------------------------------------------------------

\* C9 as claimed: in the matched terms of every result, neutral ones
\* included, all phrase matches come before all single-word matches.
C9_AsClaimed == Done => PhrasesFirst(keywords)

\* C9 amended: in the matched terms of every bullish and every bearish
\* result all phrase matches come before all single-word matches; a neutral
\* result lists the bullish-matched terms and then the bearish-matched terms,
\* and in each of these two parts the phrase matches come first.
C9_PhrasesFirstPerList ==
    Done =>
        /\ PhrasesFirst(bull_hits)
        /\ PhrasesFirst(bear_hits)
        /\ sentiment \in {"bullish", "bearish"} => PhrasesFirst(keywords)
        /\ sentiment = "neutral" => keywords = bull_hits \o bear_hits

\* C9 witness: a neutral result in which a bullish single word precedes a
\* bearish phrase.
C9_Witness ==
    /\ Scanned
    /\ sentiment = "neutral"
    /\ \E i \in DOMAIN bull_hits : ~IsPhraseTerm(bull_hits[i])
    /\ \E i \in DOMAIN bear_hits : IsPhraseTerm(bear_hits[i])
    /\ ~PhrasesFirst(keywords)

\* A bullish result that holds a phrase and a single word.
C9_BullishBothKinds ==
    /\ Scanned
    /\ sentiment = "bullish"
    /\ PhraseTerms(keywords) > 0
    /\ PhraseTerms(keywords) < Len(keywords)

\* ------------------------------------------------------------------------
\* C10
\* ------------------------------------------------------------------------

\* C10: the matched terms of every result hold no string twice.
C10_NoDuplicateTerms == Done => NoDuplicates(keywords)

\* C10 witness: a neutral result that concatenates both lists, for a headline
\* in which a phrase occurs twice.
C10_Witness ==
    /\ Scanned
    /\ sentiment = "neutral"
    /\ bull_hits # <<>>
    /\ bear_hits # <<>>
    /\ \E p \in PhrasesPresent(text) : Cardinality(Occurrences(lower(text), p)) >= 2

\* A headline in which a single word matches twice was scanned.
C10_WordTwiceReached ==
    /\ Scanned
    /\ \E w \in AllWords :
          Cardinality({ i \in 0..(Len(text) - Len(w)) : PatternMatchAt(w, text, i) }) >= 2

\* ------------------------------------------------------------------------
\* C11  The terms of a bullish and of a bearish result
\* ------------------------------------------------------------------------

\* classify_sentiment has returned, and the impact note may have been built.
Classified == pc \in {"done", "noted"}

\* The terms the scan attributes to the bullish side: the bullish phrases,
\* the negated bearish phrases ("no <phrase>") and the bullish words.
BullishAttributed ==
    Range(BULLISH_PHRASES)
      \cup { NoPhrase(p) : p \in Range(BEARISH_PHRASES) }
      \cup Range(BULLISH_WORDS)

\* The terms attributed to the bearish side: the bearish phrases, the negated
\* bullish phrases ("not <phrase>") and the bearish words.
BearishAttributed ==
    Range(BEARISH_PHRASES)
      \cup { NotPhrase(p) : p \in Range(BULLISH_PHRASES) }
      \cup Range(BEARISH_WORDS)

\* C11: a bullish result has at least one term and only bullish-attributed
\* terms, a bearish result has at least one term and only bearish-attributed
\* terms, and the impact note built from a bullish or bearish result of
\* classify_sentiment never is the generic sentence of the empty list
\* (lines 279 and 290): it is the template that cites terms.
C11_AttributedTerms ==
    /\ (Classified /\ sentiment = "bullish") =>
          /\ keywords # <<>>
          /\ Range(keywords) \subseteq BullishAttributed
    /\ (Classified /\ sentiment = "bearish") =>
          /\ keywords # <<>>
          /\ Range(keywords) \subseteq BearishAttributed
    /\ (pc = "noted" /\ sentiment = "bullish") =>
          note.line = 272 /\ note.cited # <<>>
    /\ (pc = "noted" /\ sentiment = "bearish") =>
          note.line = 283 /\ note.cited # <<>>

\* A bullish result that holds a negated bearish phrase, and its note.
C11_Witness ==
    /\ pc = "noted"
    /\ sentiment = "bullish"
    /\ \E p \in Range(BEARISH_PHRASES) : InList(NoPhrase(p), keywords)
    /\ note.line = 272

\* A bearish result that holds a negated bullish phrase and a bearish word,
\* and its note.
C11_BearishNoted ==
    /\ pc = "noted"
    /\ sentiment = "bearish"
    /\ \E p \in Range(BULLISH_PHRASES) : InList(NotPhrase(p), keywords)
    /\ \E w \in Range(BEARISH_WORDS) : InList(w, keywords)
    /\ note.line = 283

\* ------------------------------------------------------------------------
\* C12  classify_sentiment is total on strings
\* ------------------------------------------------------------------------

\* The return statements of classify_sentiment.
ReturnLines == {198, 257, 259, 261, 263, 264}

WhiteSpace == {" ", "\t"}

\* The characters of the model's alphabet outside ASCII.
NonAscii == {"₹", "é", "É"}

\* A value classify_sentiment can return: one of the three labels, from one
\* of the return statements, with a list of terms.
LabelledResult(label, terms, line) ==
    /\ label \in {"bullish", "bearish", "neutral"}
    /\ line \in ReturnLines
    /\ \A i \in DOMAIN terms : terms[i] \in BullishAttributed \cup BearishAttributed

\* C12: for every string, white space only and characters outside ASCII
\* included, classify_sentiment(text) has a value, and the value it has and
\* the value a call has returned is one of the labels bullish, bearish and
\* neutral together with a list of terms: no call ends without a result.
C12_Total ==
    /\ pc = "input" =>
          \A r \in { classify_sentiment(FALSE, text).ret } :
              LabelledResult(r.sentiment, r.keywords, r.line)
    /\ (Done /\ ~none) => LabelledResult(sentiment, keywords, ret_line)

\* A headline with a character outside ASCII has been classified, and a
\* lexicon entry was matched in it.
C12_Witness ==
    /\ Done
    /\ ~none
    /\ \E i \in DOMAIN text : text[i] \in NonAscii
    /\ keywords # <<>>

\* A headline of white space only has been classified.
C12_WhiteSpaceOnlyReached ==
    /\ Done
    /\ ~none
    /\ Len(text) >= 2
    /\ \A i \in DOMAIN text : text[i] \in WhiteSpace
    /\ sentiment = "neutral"

\* ------------------------------------------------------------------------
\* C13  The result depends on the argument alone
\* ------------------------------------------------------------------------

\* No worker is inside a call.
AllIdle == \A t \in Threads : workers[t].at = 0

\* p is what classify_sentiment returns for p.arg when it is called alone.
CalledAlone(p) ==
    \A r \in { classify_sentiment(FALSE, p.arg).ret } :
        p.sentiment = r.sentiment /\ p.keywords = r.keywords

\* C13: the calls of classify_sentiment made by the worker threads, one
\* after the other or interleaved loop by loop, leave the phrase lists, the
\* word lists, the compiled patterns and the negation markers as they were
\* at import; any two calls on the same string have returned the same label
\* and the same terms; and once the calls are over, what each has returned
\* is what a call of its own returns for that string.
C13_ArgumentAlone ==
    /\ lexicon = Lexicon0
    /\ \A p \in returned : \A q \in returned :
          p.arg = q.arg => (p.sentiment = q.sentiment /\ p.keywords = q.keywords)
    /\ AllIdle => \A p \in returned : CalledAlone(p)

\* Two workers are inside calls on the same headline, in different loops,
\* after an earlier call on that headline has returned with matched terms.
C13_Witness ==
    \E h \in Headlines :
        /\ workers["t1"].at # 0 /\ workers["t1"].title = h
        /\ workers["t2"].at # 0 /\ workers["t2"].title = h
        /\ workers["t1"].at # workers["t2"].at
        /\ \E p \in returned : p.arg = h /\ p.keywords # <<>>

\* ------------------------------------------------------------------------
\* C14  The indices and the score of two series
\* ------------------------------------------------------------------------

\* The stages of the analysis of a symbol.
Scored == pc = "scored"

Rendered == pc = "rendered"

\* The items of a dict, whatever their order.
Items(d) == { d[i] : i \in DOMAIN d }

\* The years both series of the state have, ascending.
YearsOfBoth == CommonYears(rev_yearly, price_yearly)

\* The amount of a series at its i-th common year.
AmountAt(d, i) == FromInt(Get(d, YearsOfBoth[i]))

\* The value a series is rebased on: its amount at the first common year, 1
\* when that amount is 0.
Rebase(d) == IF IsZero(AmountAt(d, 1)) THEN FromInt(1) ELSE AmountAt(d, 1)

\* amount / base * 100 at every common year.
Rebased(d) ==
    LET base == Rebase(d)
    IN  [i \in DOMAIN YearsOfBoth |-> IndexOf[AmountAt(d, i), base]]

\* The sums of the differences of the two rebased series that a Python
\* interpreter gives.
SumsOfDifferences ==
    LET r == Rebased(rev_yearly)
        p == Rebased(price_yearly)
        differences == [i \in DOMAIN YearsOfBoth |-> DifferenceOf[r[i], p[i]]]
    IN  { sum(differences, c) : c \in BOOLEAN }

\* The series of the example: score({2021:100,2022:150}, {2021:50,2022:55}).
IsExample ==
    /\ Items(rev_yearly) = { <<2021, 100>>, <<2022, 150>> }
    /\ Items(price_yearly) = { <<2021, 50>>, <<2022, 55>> }

\* The float 110.00000000000001, which is 55.0 / 50.0 * 100.
PriceIndexOfExample == [neg |-> FALSE, mag |-> <<0, 16384, 0, 0, 0, 110, 0>>]

\* The float 39.999999999999986, which is 150.0 - 110.00000000000001.
ScoreOfExample ==
    [neg |-> FALSE, mag |-> <<0, 16384, 32767, 32767, 32767, 39, 0>>]

\* The indices drawn and the score stored are the rebased series and the sum
\* of their differences.
IndicesAndScore ==
    Len(YearsOfBoth) >= 2 =>
        /\ Rendered => /\ chart.rev_idx = Rebased(rev_yearly)
                       /\ chart.price_idx = Rebased(price_yearly)
        /\ Scored => score.value \in SumsOfDifferences

\* C14 as claimed: for at least 2 common years the indices are the amounts
\* divided by the base and multiplied by 100 and the score is the sum of
\* their differences, and the example has revenueIndex [100,150], priceIndex
\* [100,110] and score 40.
C14_AsClaimed ==
    /\ IndicesAndScore
    /\ IsExample /\ Rendered =>
          /\ chart.rev_idx = << FromInt(100), FromInt(150) >>
          /\ chart.price_idx = << FromInt(100), FromInt(110) >>
    /\ IsExample /\ Scored => score.value = FromInt(40)

\* C14: for at least 2 common years the indices are the amounts divided by
\* the base (the amount of the first common year, 1 when it is 0) and
\* multiplied by 100, in floats, and the score is the float sum of their
\* differences; the example has revenueIndex [100.0, 150.0], priceIndex
\* [100.0, 110.00000000000001] and score 39.999999999999986.
C14_IndicesAndScore ==
    /\ IndicesAndScore
    /\ IsExample /\ Rendered =>
          /\ chart.rev_idx = << FromInt(100), FromInt(150) >>
          /\ chart.price_idx = << FromInt(100), PriceIndexOfExample >>
    /\ IsExample /\ Scored => score.value = ScoreOfExample

\* C14 witness: the score of the example has been stored.
C14_Witness == Scored /\ IsExample /\ score.line = 1400

\* C14: three common years have been scored with a score other than 0.
C14_ThreeYearsScored ==
    Scored /\ Len(YearsOfBoth) = 3 /\ score.line = 1400 /\ ~IsZero(score.value)

\* ------------------------------------------------------------------------
\* C15  The base year of an index
\* ------------------------------------------------------------------------

\* Both index lists have been assigned.
Indexed == { "rev_idx", "price_idx" } \subseteq chart.bound

\* The index lists are as long as the common years and start at 100.
StartAtHundred ==
    /\ Indexed
    /\ Len(chart.rev_idx) = Len(chart.common_years)
    /\ Len(chart.price_idx) = Len(chart.common_years)
    /\ chart.rev_idx[1] = FromInt(100)
    /\ chart.price_idx[1] = FromInt(100)

\* The revenue of the example: score({2021:0,2022:100}, ...).
ZeroBaseRevenue == Items(rev_yearly) = { <<2021, 0>>, <<2022, 100>> }

\* C15: with at least one common year the common years and the two indices
\* have the same length and both indices start at 100, also when the amount
\* of the base year is 0: the revenue 0, 100 has the index [100, 10000].
C15_BaseAtHundred ==
    Rendered /\ Len(YearsOfBoth) >= 1 =>
        /\ StartAtHundred
        /\ ZeroBaseRevenue /\ Len(YearsOfBoth) = 2 =>
              chart.rev_idx = << FromInt(100), FromInt(10000) >>

\* C15 for the series the chart is drawn for, those with at least 2 common
\* years: both indices start at 100.
C15_FromTwoYears == Rendered /\ Len(YearsOfBoth) >= 2 => StartAtHundred

\* C15: the revenue 0, 100 has been drawn with the index [0.0, 10000.0].
C15_ZeroBaseDrawn ==
    /\ Rendered
    /\ ZeroBaseRevenue
    /\ Items(price_yearly) = { <<2021, 50>>, <<2022, 50>> }
    /\ chart.rev_idx = << FromInt(0), FromInt(10000) >>
    /\ chart.price_idx = << FromInt(100), FromInt(100) >>

\* ------------------------------------------------------------------------
\* C16  The value signal
\* ------------------------------------------------------------------------

\* The texts of the three signals.
Undervalued == "\\u25B2 Undervalued"

Overvalued == "\\u25BC Overvalued"

FairValue == "\\u25C6 Fair Value"

\* The change of a series from the year before the last common year to the
\* last common year, in percent; 0 when the amount of the year before is 0.
LastChange(d) ==
    LET n == Len(YearsOfBoth)
        last == AmountAt(d, n)
        prev == AmountAt(d, n - 1)
    IN  IF IsZero(prev) THEN FromInt(0)
        ELSE FMul(FDiv(FSub(last, prev), prev), Hundred)

\* The gap of the state: the change of the revenue less that of the price.
LastGap == FSub(LastChange(rev_yearly), LastChange(price_yearly))

\* The dict d without the items of the years outside ys.
Restrict(d, ys) == SelectSeq(d, LAMBDA item : item[1] \in ys)

\* The last two common years.
LastTwoYears ==
    { YearsOfBoth[Len(YearsOfBoth) - 1], YearsOfBoth[Len(YearsOfBoth)] }

\* C16: with at least 2 common years the changes are those of the last two
\* common years (0 when the earlier amount is 0), the gap is their
\* difference, the signal is undervalued exactly when gap > 10, overvalued
\* exactly when gap < -10 and fair value otherwise, and it is the signal of
\* the two series cut down to their last two common years.
C16_SignalBanding ==
    Rendered /\ Len(YearsOfBoth) >= 2 =>
        /\ chart.rev_change = LastChange(rev_yearly)
        /\ chart.price_change = LastChange(price_yearly)
        /\ chart.gap = LastGap
        /\ chart.signal_text \in { Undervalued, Overvalued, FairValue }
        /\ chart.signal_text = Undervalued <=> FGt(chart.gap, FromInt(10))
        /\ chart.signal_text = Overvalued <=> FLt(chart.gap, FromInt(-10))
        /\ chart.gap \in { FromInt(10), FromInt(-10) } =>
              chart.signal_text = FairValue
        /\ chart.signal_text =
              render_charts(Restrict(rev_yearly, LastTwoYears),
                            Restrict(price_yearly, LastTwoYears)).signal_text

\* C16 witness: three common years whose gap is exactly 10 and whose signal
\* is fair value, the first year differing from the second in both series.
C16_Witness ==
    /\ Rendered
    /\ Len(YearsOfBoth) = 3
    /\ chart.gap = FromInt(10)
    /\ chart.signal_text = FairValue
    /\ AmountAt(rev_yearly, 1) # AmountAt(rev_yearly, 2)
    /\ AmountAt(price_yearly, 1) # AmountAt(price_yearly, 2)

\* C16: a gap of exactly -10 has been drawn as fair value.
C16_LowerBoundDrawn ==
    Rendered /\ Indexed /\ chart.gap = FromInt(-10) /\ chart.signal_text = FairValue

\* C16: an undervalued signal has been drawn for a revenue whose change is 0
\* because the amount of the year before the last is 0.
C16_GuardedUndervalued ==
    /\ Rendered /\ Indexed
    /\ chart.signal_text = Undervalued
    /\ IsZero(AmountAt(rev_yearly, Len(YearsOfBoth) - 1))
    /\ ~IsZero(AmountAt(rev_yearly, Len(YearsOfBoth)))

\* C16: an overvalued signal has been drawn.
C16_OvervaluedDrawn == Rendered /\ Indexed /\ chart.signal_text = Overvalued

\* ------------------------------------------------------------------------
\* C17  The common years
\* ------------------------------------------------------------------------

\* The list years holds exactly the years that are keys of both series, each
\* once, in strictly ascending order.
AscendingIntersection(years) ==
    /\ { years[i] : i \in DOMAIN years } =
          { y \in Years : (\E i \in DOMAIN rev_yearly : rev_yearly[i][1] = y)
                          /\ (\E j \in DOMAIN price_yearly : price_yearly[j][1] = y) }
    /\ \A i, j \in DOMAIN years : i < j => years[i] < years[j]

\* The keys of a dict were inserted in an order that is not ascending.
InsertedOutOfOrder(d) == \E i, j \in DOMAIN d : i < j /\ d[i][1] > d[j][1]

\* C17: the common years of the scorer and of the chart are exactly the years
\* that are keys of both series, in strictly ascending order, whatever the
\* insertion order of the series.
C17_CommonYears ==
    /\ Scored => AscendingIntersection(score.common_years)
    /\ Rendered => AscendingIntersection(chart.common_years)

\* C17 witness: three common years drawn for a revenue series whose years
\* were inserted latest first.
C17_Witness ==
    /\ Rendered
    /\ Len(chart.common_years) = 3
    /\ rev_yearly[1][1] = 2023
    /\ rev_yearly[3][1] = 2021

\* C17: two common years scored for a revenue series inserted out of order
\* that has a year the price series lacks.
C17_PartialOverlapScored ==
    /\ Scored
    /\ Len(score.common_years) = 2
    /\ Len(rev_yearly) = 3
    /\ InsertedOutOfOrder(rev_yearly)

\* ------------------------------------------------------------------------
\* C18  Fewer than two common years
\* ------------------------------------------------------------------------

\* The scorer stored the score that stands for no score, outside the handler
\* of exceptions.
NoScoreStored ==
    /\ score.value = FromInt(-9999)
    /\ score.line = 1402
    /\ ~score.caught

\* The chart shows a text in place of the lines, its signal label shows the
\* dash and none of the three signals, and no exception left the function.
NoSignalDrawn ==
    /\ chart.signal_text = "\\u2014"
    /\ chart.signal_text \notin { Undervalued, Overvalued, FairValue }
    /\ chart.text # ""
    /\ ~chart.raised

\* The result for fewer than 2 common years is data.
InsufficientData ==
    Len(YearsOfBoth) < 2 =>
        /\ Scored => NoScoreStored
        /\ Rendered => NoSignalDrawn

C18_NoOverlapScored ==
    /\ Scored
    /\ Len(rev_yearly) = 1
    /\ Len(price_yearly) = 2
    /\ score.common_years = << >>

\* ------------------------------------------------------------------------
\* C19  No division by zero
\* ------------------------------------------------------------------------

\* Every amount of the dict is 0.
AllZero(d) == \A i \in DOMAIN d : d[i][2] = 0

\* Every float of the list is a number.
Numbers(list) == \A i \in DOMAIN list : ~IsError(list[i])

\* C19: no exception occurs in the scorer or in the chart, whatever the
\* amounts: every index and both changes are numbers, the change of a series
\* whose amount of the year before the last is 0 is 0, and the score is a
\* number.
C19_NeverRaises ==
    /\ Scored => /\ ~score.caught
                 /\ score.line \in { 1400, 1402 }
                 /\ ~IsError(score.value)
    /\ Rendered =>
          /\ ~chart.raised
          /\ Len(YearsOfBoth) >= 2 =>
                /\ Indexed
                /\ Numbers(chart.rev_idx)
                /\ Numbers(chart.price_idx)
                /\ Numbers(<< chart.rev_change, chart.price_change, chart.gap >>)
                /\ IsZero(AmountAt(rev_yearly, Len(YearsOfBoth) - 1)) =>
                      chart.rev_change = FromInt(0)
                /\ IsZero(AmountAt(price_yearly, Len(YearsOfBoth) - 1)) =>
                      chart.price_change = FromInt(0)

\* C19 witness: the chart of two series of three years whose amounts are all
\* 0 has been drawn with its indices.
C19_Witness ==
    /\ Rendered
    /\ Len(YearsOfBoth) = 3
    /\ AllZero(rev_yearly)
    /\ AllZero(price_yearly)
    /\ Indexed
    /\ chart.signal_text = FairValue

\* C19: a score has been stored for a revenue that is 0 in the base year and
\* a price that is 0 in the last year.
C19_ZeroBaseScored ==
    /\ Scored
    /\ Len(YearsOfBoth) = 2
    /\ IsZero(AmountAt(rev_yearly, 1))
    /\ ~IsZero(AmountAt(rev_yearly, 2))
    /\ IsZero(AmountAt(price_yearly, 2))
    /\ score.line = 1400

\* ------------------------------------------------------------------------
\* C20  The impact note
\* ------------------------------------------------------------------------

\* A note has been built.
Noted == pc = "noted"

\* The separator of the cited terms.
CommaSpace == << ",", " " >>

\* The terms 1..k of the list, title-cased, with ", " between them, for k
\* from 1 to 4.
FirstTermsCited(k) ==
    LET t(i) == title(keywords[i])
    IN  IF k = 1 THEN t(1)
        ELSE IF k = 2 THEN t(1) \o CommaSpace \o t(2)
        ELSE IF k = 3 THEN t(1) \o CommaSpace \o t(2) \o CommaSpace \o t(3)
        ELSE t(1) \o CommaSpace \o t(2) \o CommaSpace \o t(3) \o CommaSpace \o t(4)

\* The label whose templates are used: every label other than bullish and
\* bearish uses those of neutral.
TemplateOf(label) ==
    IF label \in { "bullish", "bearish" } THEN label ELSE "neutral"

\* The return of the template with terms, and of the generic sentence.
TemplateLine == [ bullish |-> 272, bearish |-> 283, neutral |-> 294 ]

GenericLine == [ bullish |-> 279, bearish |-> 290, neutral |-> 299 ]

\* The generic sentences.
GenericSentence ==
    [ bullish |-> "This news has a positive tone that could support investor confidence.",
      bearish |-> "This news has a negative tone that warrants caution for investors.",
      neutral |-> "This news is neutral and does not strongly indicate either positive or negative impact on the stock. Monitor for follow-up developments." ]

\* C20: the note is chosen by the label (any label other than bullish and
\* bearish as neutral): with terms it is the label's template citing exactly
\* the first min(4, n) terms in order, title-cased and joined by ", "; with no
\* term it is the label's generic sentence; a note is returned for every
\* list of strings.
C20_TemplateByLabel ==
    Noted =>
        /\ note.line # 0
        /\ Len(keywords) > 0 =>
              /\ note.line = TemplateLine[TemplateOf(sentiment)]
              /\ note.cited = FirstTermsCited(Min(4, Len(keywords)))
        /\ Len(keywords) = 0 =>
              /\ note.line = GenericLine[TemplateOf(sentiment)]
              /\ note.head = GenericSentence[TemplateOf(sentiment)]
              /\ note.cited = << >>
              /\ note.tail = ""

\* C20 witness: a bearish note for five terms, the fifth of which is none of
\* the four it cites.
C20_Witness ==
    /\ Noted
    /\ sentiment = "bearish"
    /\ Len(keywords) = 5
    /\ \A i \in 1..4 : keywords[i] # keywords[5]
    /\ keywords[5] # << >>
    /\ note.line = 283

\* C20: a note of the neutral template for the label "Bullish" and one term.
C20_OtherLabelNoted ==
    Noted /\ sentiment = "Bullish" /\ Len(keywords) = 1 /\ note.line = 294

\* C20: the generic bullish sentence for no term.
C20_GenericNoted ==
    Noted /\ sentiment = "bullish" /\ keywords = << >> /\ note.line = 279

\* ------------------------------------------------------------------------
\* C21  The title of the article
\* ------------------------------------------------------------------------

\* C21: the note built for a label, a list of terms and a title is the note
\* built for the same label and terms with any other title.
C21_TitleIgnored ==
    Noted => \A t \in Titles : build_impact_note(sentiment, keywords, t) = note

\* C21 witness: a note with terms built for a title that is not empty and is
\* itself one of the terms.
C21_Witness ==
    /\ Noted
    /\ text # << >>
    /\ \E i \in DOMAIN keywords : keywords[i] = text
    /\ note.line = 272

\* ------------------------------------------------------------------------
\* C22  The responses of GET /api/news
\* ------------------------------------------------------------------------

\* The query has a field stock whose value is not empty.
HasStock(query) ==
    \E k \in DOMAIN query : query[k][1] = "stock" /\ query[k][2] # ""

\* The response carries the two CORS headers.
CarriesCors(response) ==
    /\ << "Access-Control-Allow-Origin", "*" >> \in response.headers
    /\ << "Access-Control-Allow-Methods", "GET, OPTIONS" >> \in response.headers

\* The one response of a served request.
ResponseOf(e) == e.sent[1]

\* C22: every GET is answered once; without a non-empty stock field the
\* answer is 400 with an error body and no feed is fetched; when fetching or
\* parsing the feed raises, the answer is 200 with an empty list of articles
\* and a warning; no answer is a 5xx and every answer carries the CORS
\* headers.
C22_NewsResponses ==
    \A i \in DOMAIN api :
        /\ Len(api[i].sent) = 1
        /\ CarriesCors(ResponseOf(api[i]))
        /\ ResponseOf(api[i]).code < 500
        /\ api[i].method = "GET" /\ ~HasStock(api[i].query) =>
              /\ ResponseOf(api[i]).code = 400
              /\ DOMAIN ResponseOf(api[i]).body = { "error" }
              /\ api[i].fetches = 0
        /\ api[i].method = "GET" /\ HasStock(api[i].query) /\ api[i].feed.fails # "" =>
              /\ ResponseOf(api[i]).code = 200
              /\ DOMAIN ResponseOf(api[i]).body = { "articles", "warning" }
              /\ ResponseOf(api[i]).body.articles = << >>
              /\ ResponseOf(api[i]).body.warning # ""

\* C22 witness: a request whose only stock fields are blank or of another
\* name was answered with 400, then a request whose feed does not parse was
\* answered with 200 and a warning.
C22_Witness ==
    /\ Len(api) = 2
    /\ api[1].query = << <<"q", "TCS">>, <<"stock", "">> >>
    /\ ResponseOf(api[1]).code = 400
    /\ api[2].feed.fails = "fromstring"
    /\ ResponseOf(api[2]).code = 200
    /\ "warning" \in DOMAIN ResponseOf(api[2]).body

\* C22: a feed of one item without elements was answered with the article of
\* the defaults.
C22_DefaultsAnswered ==
    /\ Len(api) = 1
    /\ api[1].fetches = 1
    /\ DOMAIN ResponseOf(api[1]).body = { "articles" }
    /\ ResponseOf(api[1]).body.articles =
          << [title |-> "", source |-> "Unknown", date |-> ""] >>
\* ------------------------------------------------------------------------
\* C23
\* ------------------------------------------------------------------------

\* The value divergence option of the sort dropdown.
ValueDivergence == SORT_OPTIONS[1]

\* The series of the symbol were fetched and share at least 2 years.
HasScore(sym) ==
    /\ ~Fetched(sym).fails
    /\ Len(CommonYears(Fetched(sym).rev, Fetched(sym).price)) >= 2

\* The name the screener gives for a symbol.
NameOf(sym) ==
    LET q == CHOOSE q \in UNION { Range(Quotes(IndustryMap[i][2][1])) :
                                    i \in DOMAIN IndustryMap } : q.symbol = sym
    IN  q.shortName

\* The label lists the symbol without a score.
ListedNotAvailable(label, sym) ==
    label = Label(NameOf(sym), sym, "  [VD: N/A]")

\* The label lists the symbol with the number its series give.
ListedWithScore(label, sym) ==
    \E compensated \in BOOLEAN :
        label = Label(NameOf(sym), sym,
                      "  [VD: " \o SignedInteger(ScoreOf(sym, compensated)) \o "]")

\* The status line after n of k scores were computed.
ScoresStatus(k, n) ==
    ToString(k) \o " stocks loaded \\u2014 " \o ToString(n) \o " value scores computed"

\* C23: once the scores of the listed stocks are delivered and the list is
\* sorted by value divergence, a stock is listed with its number exactly
\* when its series were fetched and share at least 2 years, and as N/A
\* exactly when they were not, and the status line counts exactly the former.
C23_InsufficientDataDistinct ==
    LET scores == gui.divergence_scores
        k == Len(gui.stock_details)
    IN  /\ \A i \in DOMAIN gui.names_to_symbols :
              LET label == gui.names_to_symbols[i][1]
                  sym == gui.names_to_symbols[i][2]
              IN  (/\ gui.sort_var = ValueDivergence
                   /\ sym \in Keys(scores)
                   /\ label # Label(NameOf(sym), sym, ""))
                  => /\ HasScore(sym) <=> ListedWithScore(label, sym)
                     /\ ~HasScore(sym) <=> ListedNotAvailable(label, sym)
        /\ (scores # << >> /\ \E n \in 0..Len(scores) : gui.status = ScoresStatus(k, n))
           => gui.status = ScoresStatus(k,
                  Cardinality({ i \in DOMAIN scores : HasScore(scores[i][1]) }))

\* The stocks without enough data are listed as N/A and not counted.
C23_NotAvailableListed ==
    /\ gui.sort_var = ValueDivergence
    /\ gui.divergence_scores # << >>
    /\ gui.status = ScoresStatus(2, 0)
    /\ \A i \in DOMAIN gui.names_to_symbols :
          /\ ~HasScore(gui.names_to_symbols[i][2])
          /\ ListedNotAvailable(gui.names_to_symbols[i][1], gui.names_to_symbols[i][2])
\* ------------------------------------------------------------------------
\* C24
\* ------------------------------------------------------------------------

\* C24: when a sector is selected and no sector worker is in flight,
\* _sector_data is the overview fetched for the selected sector, and so is
\* what the level-1 pie shows.
C24_OverviewOfSelectedSector ==
    (gui.sector_var # "" /\ InFlight("sector") = {})
    => /\ gui.sector_data = Overview(gui.sector_var)
       /\ gui.pie_level = 1 => gui.pie.data = Overview(gui.sector_var)

\* The overview of the selected sector is loaded and drawn.
C24_OverviewDrawn ==
    /\ gui.sector_var = "Technology"
    /\ InFlight("sector") = {}
    /\ gui.pie_level = 1
    /\ gui.pie = [title |-> "Technology", data |-> Overview("Technology")]

\* The level-1 pie shows the overview of a sector other than the selected one.
C24_OtherSectorDrawn ==
    /\ gui.pie_level = 1
    /\ InFlight("sector") = {}
    /\ gui.pie # << >>
    /\ gui.pie.title = gui.sector_var
    /\ gui.pie.data # << >>
    /\ gui.pie.data # Overview(gui.sector_var)
\* ------------------------------------------------------------------------
\* C25
\* ------------------------------------------------------------------------

\* No screener worker and no score worker is in flight.
AllDelivered ==
    InFlight("screen") = {} /\ InFlight("scores") = {}

\* C25: once the workers have delivered, _divergence_scores has an entry for
\* exactly the symbols of the stock list held in _stock_details.
C25_ScoresOfCurrentList ==
    (AllDelivered /\ gui.stock_details # << >>)
    => Keys(gui.divergence_scores) = Keys(gui.stock_details)

\* The scores of the only worker are those of the loaded list.
C25_ScoresDelivered ==
    /\ AllDelivered
    /\ gui.stock_details # << >>
    /\ gui.started = 4
    /\ Keys(gui.divergence_scores) = Keys(gui.stock_details)
\* ------------------------------------------------------------------------
\* C26
\* ------------------------------------------------------------------------

\* The stock state as _on_sector_change leaves it.
StockStateReset ==
    /\ gui.stock_details = << >>
    /\ gui.names_to_symbols = << >>
    /\ gui.stock_combo = << >>
    /\ gui.go_btn = "disabled"

\* C26: the stock state is reset unless the quotes it holds are those of a
\* screener worker started after the last sector change.
C26_ResetUntilNewLoad ==
    ~StockStateReset => gui.details_by > gui.changed_at

\* The stock state holds the quotes of a load requested after a sector change.
C26_LoadedAfterChange ==
    /\ gui.changed_at > 1
    /\ gui.stock_details # << >>
    /\ gui.details_by > gui.changed_at

\* The stock state is reset while a load requested before the sector change
\* is in flight.
C26_ResetWithLoadInFlight ==
    /\ StockStateReset
    /\ \E w \in InFlight("screen") : w.id <= gui.changed_at

\* The stock state holds the quotes of the industry of another sector than
\* the selected one.
C26_StaleQuotesApplied ==
    /\ gui.sector_var = "Technology"
    /\ gui.go_btn = "normal"
    /\ Keys(gui.stock_details) = { <<"RELIANCE", ".NS">>, <<"ONGC", ".NS">> }
    /\ gui.details_by <= gui.changed_at
\* ------------------------------------------------------------------------
\* C27
\* ------------------------------------------------------------------------

\* C27: while an analysis worker is in flight the Analyze button is
\* disabled, and at most one analysis worker is in flight.
C27_OneAnalysis ==
    /\ InFlight("analysis") # {} => gui.go_btn = "disabled"
    /\ Cardinality(InFlight("analysis")) <= 1

\* Two analysis workers are in flight, for different stocks.
C27_TwoAnalyses ==
    \E v, w \in InFlight("analysis") : v.work.symbol # w.work.symbol
\* ------------------------------------------------------------------------
\* C28
\* ------------------------------------------------------------------------

\* The symbol the selected label of a window denotes, << >> when none.
SelectedSymbol(g) ==
    GetOr(g.names_to_symbols, g.stock_var, << >>)

\* A step that runs _apply_sort on a stock list.
AppliesSort ==
    /\ gui.stock_details # << >>
    /\ \/ OnScoresComputed
       \/ \E choice \in Range(SORT_OPTIONS) : OnSortChange(choice)

\* C28: a step that runs _apply_sort leaves the label of the same symbol
\* selected, and selects the first entry when no label was selected.
C28_SelectionKept ==
    [][ AppliesSort =>
          IF SelectedSymbol(gui) # << >>
          THEN SelectedSymbol(gui') = SelectedSymbol(gui)
          ELSE gui'.stock_var = gui'.stock_combo[1] ]_vars

\* A step that runs _apply_sort keeps the selection when it leaves the
\* selected label in the dropdown.
C28_KeptWhenLabelListed ==
    [][ (AppliesSort /\ gui.stock_var \in Range(gui'.stock_combo))
        => gui'.stock_var = gui.stock_var ]_vars
\* ------------------------------------------------------------------------
\* C29
\* ------------------------------------------------------------------------

\* The series are drawn, share exactly two years and are not 0 at the first.
TwoYearsFromNonZero ==
    /\ Rendered
    /\ Len(chart.common_years) = 2
    /\ Get(rev_yearly, chart.common_years[1]) # 0
    /\ Get(price_yearly, chart.common_years[1]) # 0

\* The score the list is sorted by for the series of the state.
ListScore(compensated) ==
    compute_score(rev_yearly, price_yearly, compensated).value

\* |x|
Abs(x) == [neg |-> FALSE, mag |-> x.mag]

\* 2^-30, far above the rounding errors of the amounts of the model and far
\* below the differences of their indices.
Tolerance == [neg |-> FALSE, mag |-> [i \in Limbs |-> IF i = FracLimbs - 1 THEN 1 ELSE 0]]

\* The example of the sort explanation: revenue 1000 -> 1400, price
\* 500 -> 550.  Its score, with the first difference 100.0 - 100.0 = 0.0.
ExampleScore ==
    FAdd(FromInt(0),
         FSub(FMul(FDiv(FromInt(1400), FromInt(1000)), Hundred),
              FMul(FDiv(FromInt(550), FromInt(500)), Hundred)))

\* The gap of the example.
ExampleGap ==
    FSub(FMul(FDiv(FSub(FromInt(1400), FromInt(1000)), FromInt(1000)), Hundred),
         FMul(FDiv(FSub(FromInt(550), FromInt(500)), FromInt(500)), Hundred))

\* C29 as claimed: with exactly two common years and non-zero first values
\* the score equals the gap, and the signal is undervalued exactly when the
\* score is above 10, overvalued exactly when it is below -10.
C29_AsClaimed ==
    TwoYearsFromNonZero
    => \A compensated \in BOOLEAN :
          LET s == ListScore(compensated)
          IN  /\ s = chart.gap
              /\ chart.signal_text = Undervalued <=> FGt(s, FromInt(Band))
              /\ chart.signal_text = Overvalued <=> FLt(s, FromInt(0 - Band))

\* C29: with exactly two common years and non-zero first values the score
\* and the gap differ by less than 2^-30, the signal is undervalued exactly
\* when the gap is above 10 and overvalued exactly when it is below -10; the
\* example of the sort explanation has the gap 30.0 and a score just below
\* 30 that is listed as +30.
C29_ScoreNearGap ==
    /\ TwoYearsFromNonZero
       => \A compensated \in BOOLEAN :
             /\ FLt(Abs(FSub(ListScore(compensated), chart.gap)), Tolerance)
             /\ chart.signal_text = Undervalued <=> FGt(chart.gap, FromInt(Band))
             /\ chart.signal_text = Overvalued <=> FLt(chart.gap, FromInt(0 - Band))
    /\ ExampleGap = FromInt(30)
    /\ FLt(ExampleScore, FromInt(30))
    /\ SignedInteger(ExampleScore) = "+30"

\* Revenue 100 -> 110 against a flat price: the gap is 10.0 and the signal
\* fair value, the score is above 10.
C29_Witness ==
    /\ TwoYearsFromNonZero
    /\ chart.signal_text = FairValue
    /\ chart.gap = FromInt(Band)
    /\ \A compensated \in BOOLEAN : FGt(ListScore(compensated), FromInt(Band))

\* Score and gap are the same float.
C29_EqualReached ==
    /\ TwoYearsFromNonZero
    /\ chart.signal_text = Undervalued
    /\ \A compensated \in BOOLEAN : ListScore(compensated) = chart.gap

\* ------------------------------------------------------------------------
\* C30: the industry cache
\* ------------------------------------------------------------------------

\* The program has started at least once.
Started == disk.starts > 0

\* The file the last start found is a JSON object whose timestamp is a number.
Parses(file) ==
    /\ file.kind = "file"
    /\ file.doc.type = "object"
    /\ GetOr(file.doc.members, "timestamp", Number(0)).type = "number"

\* The seconds between the timestamp of the file and the clock.
AgeOf(file, now) == now - GetOr(file.doc.members, "timestamp", Number(0)).number

\* The sector map stored in the file, empty when there is none.
StoredSectors(file) == GetOr(file.doc.members, "sectors", Object(<< >>)).items

\* The file exists, parses and its timestamp is at most 7 days old.
Usable(file, now) == Parses(file) /\ AgeOf(file, now) <= 7 * 24 * 3600

\* C30: load_industry_cache never raises; it returns what the file stores
\* when the file exists, parses and is at most 7 days old, and None in
\* every other case; _load_industries rebuilds (and saves what it built)
\* exactly when that result is None or an empty map, and otherwise hands
\* the stored map on unchanged.
C30_CacheReadOrRebuilt ==
    Started =>
        LET file   == disk.last.file
            now    == disk.last.at
            result == load_industry_cache(file, now)
        IN  /\ result.raised = ""
            /\ disk.last.raised = ""
            /\ Usable(file, now) => result.value = StoredSectors(file)
            /\ ~Usable(file, now) => result.value = None
            /\ disk.last.rebuilt <=>
                   ~(Usable(file, now) /\ StoredSectors(file) # << >>)
            /\ ~disk.last.rebuilt =>
                   /\ disk.last.callback = "_on_industries_loaded"
                   /\ disk.last.imap = StoredSectors(file)
                   /\ disk.last.left = file
            /\ (disk.last.rebuilt /\ disk.last.callback = "_on_industries_loaded")
                   => disk.last.left \in
                          { TextFile(CacheDocument(now, disk.last.imap)),
                            TextFile([type |-> "invalid"]), file }
            /\ (disk.last.rebuilt /\ disk.last.callback # "_on_industries_loaded")
                   => disk.last.left = file

\* The second start finds the map the first start saved exactly 7 days
\* before and hands it on without building it again.
C30_SavedMapReadBack ==
    /\ disk.starts = 2
    /\ disk.last.file = TextFile(CacheDocument(Now0, IndustryMap))
    /\ disk.last.at = Now0 + _CACHE_MAX_AGE
    /\ ~disk.last.rebuilt
    /\ disk.last.imap = IndustryMap

\* One second later the same file is too old and the map is built again.
C30_OldCacheRebuilt ==
    /\ disk.starts = 2
    /\ disk.last.file = TextFile(CacheDocument(Now0, IndustryMap))
    /\ disk.last.at = Now0 + _CACHE_MAX_AGE + 1
    /\ disk.last.rebuilt

\* A file whose timestamp is a string is read as no cache.
C30_MalformedRebuilt ==
    /\ Started
    /\ disk.last.file.kind = "file"
    /\ disk.last.file.doc.type = "object"
    /\ ~Parses(disk.last.file)
    /\ disk.last.rebuilt
    /\ disk.last.raised = ""

====
